---- MODULE Spec2Model ----
(***************************************************************************)
(* Model of cilium/ariane: the trigger matcher and the path-relevance      *)
(* evaluator of internal/config, and the issue_comment handler of          *)
(* internal/handlers.                                                      *)
(*                                                                         *)
(* A Go string is a sequence of one-character strings; "" is << >>.  A nil *)
(* slice is << >> as well: every non-nil slice the code tells apart from   *)
(* nil (a submatch) has at least one element.  The strings the code only   *)
(* compares or passes on (a ref, a SHA, a team, a status, a conclusion)    *)
(* are strings of TLA+; a nil pointer (pr, arianeConfig) is << >>.         *)
(***************************************************************************)
EXTENDS Integers, Sequences, FiniteSets, TLC

(***************************************************************************)
(* regexp.Compile and the matching methods, for the part of the RE2 syntax *)
(* the configurations below use: literals, ".", "+", capturing groups,     *)
(* "|", "^", "$" and backslash escapes.  The pattern is parsed from its    *)
(* source text, so that what the code concatenates ("^" + regex + "$") is  *)
(* what gets parsed.                                                       *)
(***************************************************************************)

\* Punctuation: a backslash before one of these is the literal character.
Punct == {"^", "$", "|", "(", ")", ".", "+", "\\", "/", "-", " ", "\n"}

\* Letters of the model's texts that regexp/syntax has no escape for
\* (ErrInvalidEscape); no pattern of the model escapes any other letter.
NoEscapeFor == {"i", "c", "u", "e", "o", "y", "m", "l"}

Lit(c) == [k |-> "lit", c |-> c]

AnyCharNotNL == [k |-> "any"]

BeginText == [k |-> "bol"]

EndText == [k |-> "eol"]

Concat(xs) == [k |-> "cat", xs |-> xs]

Alternate(xs) == [k |-> "alt", xs |-> xs]

Plus(x) == [k |-> "plus", x |-> x]

Capture(n, x) == [k |-> "cap", n |-> n, x |-> x]

ParseError == [ok |-> FALSE, nil |-> TRUE]

RECURSIVE ParseAlternation(_, _, _)
RECURSIVE ParseBranches(_, _, _, _)
RECURSIVE ParseItems(_, _, _, _, _)

\* One concatenation: the items from t[i] up to "|", ")" or the end.  acc
\* holds the items parsed so far, rep says that the last one is a repetition.
ParseItems(t, i, ng, acc, rep) ==
    IF i > Len(t) \/ t[i] \in {"|", ")"}
    THEN [ok |-> TRUE, node |-> Concat(acc), next |-> i, ng |-> ng]
    ELSE CASE t[i] = "(" ->
                LET r == ParseAlternation(t, i + 1, ng + 1)
                IN  IF ~r.ok THEN ParseError
                    ELSE IF r.next > Len(t) THEN ParseError   \* missing )
                    ELSE ParseItems(t, r.next + 1, r.ng,
                                    Append(acc, Capture(ng + 1, r.node)), FALSE)
           [] t[i] = "+" ->
                IF acc = << >> \/ rep
                THEN ParseError        \* missing argument / nested repetition
                ELSE ParseItems(t, i + 1, ng,
                                [acc EXCEPT ![Len(acc)] = Plus(@)], TRUE)
           [] t[i] = "\\" ->
                IF i = Len(t) THEN ParseError     \* trailing backslash
                ELSE IF t[i + 1] \in Punct
                THEN ParseItems(t, i + 2, ng, Append(acc, Lit(t[i + 1])), FALSE)
                ELSE IF t[i + 1] \in NoEscapeFor THEN ParseError
                ELSE [unsupported |-> TRUE]
           [] t[i] = "." -> ParseItems(t, i + 1, ng, Append(acc, AnyCharNotNL), FALSE)
           [] t[i] = "^" -> ParseItems(t, i + 1, ng, Append(acc, BeginText), FALSE)
           [] t[i] = "$" -> ParseItems(t, i + 1, ng, Append(acc, EndText), FALSE)
           [] OTHER -> ParseItems(t, i + 1, ng, Append(acc, Lit(t[i])), FALSE)

\* The branches of an alternation after the first ones (acc), from t[i].
ParseBranches(t, i, ng, acc) ==
    LET r == ParseItems(t, i, ng, << >>, FALSE)
    IN  IF ~r.ok THEN ParseError
        ELSE IF r.next <= Len(t) /\ t[r.next] = "|"
        THEN ParseBranches(t, r.next + 1, r.ng, Append(acc, r.node))
        ELSE [ok |-> TRUE, node |-> Alternate(Append(acc, r.node)),
              next |-> r.next, ng |-> r.ng]

\* An alternation from t[i] up to an unmatched ")" or the end; ng capture
\* groups have been opened before it.
ParseAlternation(t, i, ng) == ParseBranches(t, i, ng, << >>)

\* regexp.Compile(expr): the program of the pattern, or an error.
Compile(expr) ==
    LET r == ParseAlternation(expr, 1, 0)
    IN  IF ~r.ok THEN ParseError
        ELSE IF r.next <= Len(expr) THEN ParseError     \* unexpected )
        ELSE [ok |-> TRUE, nil |-> FALSE, node |-> r.node, ng |-> r.ng]

\* var re *regexp.Regexp, never assigned.
NilRegexp == [ok |-> TRUE, nil |-> TRUE, node |-> Concat(<< >>), ng |-> 0]

RECURSIVE MatchNode(_, _, _, _)
RECURSIVE MatchEach(_, _, _)
RECURSIVE MatchConcat(_, _, _, _)
RECURSIVE MatchAlternate(_, _, _, _, _)
RECURSIVE MatchPlus(_, _, _, _)

\* The ways node matches s from offset i (caps: the groups captured so far),
\* as the sequence of [pos, caps] in leftmost-first preference order.
MatchNode(node, s, i, caps) ==
    CASE node.k = "lit" ->
            IF i < Len(s) /\ s[i + 1] = node.c
            THEN << [pos |-> i + 1, caps |-> caps] >> ELSE << >>
      [] node.k = "any" ->
            IF i < Len(s) /\ s[i + 1] # "\n"
            THEN << [pos |-> i + 1, caps |-> caps] >> ELSE << >>
      [] node.k = "bol" ->
            IF i = 0 THEN << [pos |-> i, caps |-> caps] >> ELSE << >>
      [] node.k = "eol" ->
            IF i = Len(s) THEN << [pos |-> i, caps |-> caps] >> ELSE << >>
      [] node.k = "cat" ->
            MatchConcat(node.xs, 1, s, << [pos |-> i, caps |-> caps] >>)
      [] node.k = "alt" -> MatchAlternate(node.xs, 1, s, i, caps)
      [] node.k = "plus" -> MatchPlus(node.x, s, i, MatchNode(node.x, s, i, caps))
      [] node.k = "cap" ->
            LET rs == MatchNode(node.x, s, i, caps)
            IN  [j \in 1..Len(rs) |->
                    [pos |-> rs[j].pos,
                     caps |-> [rs[j].caps EXCEPT ![node.n] = SubSeq(s, i + 1, rs[j].pos)]]]

\* node matched from each of the partial matches rs, in order.
MatchEach(node, s, rs) ==
    IF rs = << >> THEN << >>
    ELSE MatchNode(node, s, Head(rs).pos, Head(rs).caps) \o MatchEach(node, s, Tail(rs))

MatchConcat(xs, k, s, rs) ==
    IF k > Len(xs) THEN rs
    ELSE MatchConcat(xs, k + 1, s, MatchEach(xs[k], s, rs))

MatchAlternate(xs, k, s, i, caps) ==
    IF k > Len(xs) THEN << >>
    ELSE MatchNode(xs[k], s, i, caps) \o MatchAlternate(xs, k + 1, s, i, caps)

\* x+ is greedy: after each match of x (rs, from offset i), one more round is
\* preferred to stopping.
MatchPlus(x, s, i, rs) ==
    IF rs = << >> THEN << >>
    ELSE (IF Head(rs).pos > i
          THEN MatchPlus(x, s, Head(rs).pos,
                         MatchNode(x, s, Head(rs).pos, Head(rs).caps))
          ELSE << >>)
         \o << Head(rs) >> \o MatchPlus(x, s, i, Tail(rs))

RECURSIVE FindFrom(_, _, _)
\* The leftmost match of re in s that starts at offset >= start.
FindFrom(re, s, start) ==
    IF start > Len(s) THEN << >>
    ELSE LET rs == MatchNode(re.node, s, start, [g \in 1..re.ng |-> << >>])
         IN  IF rs # << >>
             THEN << SubSeq(s, start + 1, Head(rs).pos) >> \o Head(rs).caps
             ELSE FindFrom(re, s, start + 1)

\* (*Regexp).FindStringSubmatch: group 0 and the capture groups of the
\* leftmost match, nil (<< >>) when there is none.
FindStringSubmatch(re, s) == FindFrom(re, s, 0)

\* (*Regexp).MatchString
MatchString(re, s) == FindStringSubmatch(re, s) # << >>

(***************************************************************************)
(* Texts of the repository and of the configurations the model draws.      *)
(***************************************************************************)

\* ".github/workflows", the literal of ShouldRunOnlyWorkflows and
\* ShouldRunWorkflow.
WorkflowsDir ==
    << ".", "g", "i", "t", "h", "u", "b", "/",
       "w", "o", "r", "k", "f", "l", "o", "w", "s" >>

\* `.github/workflows/` + workflow
WorkflowFile(workflow) == WorkflowsDir \o << "/" >> \o workflow

\* strings.HasPrefix
HasPrefix(s, prefix) ==
    Len(s) >= Len(prefix) /\ SubSeq(s, 1, Len(prefix)) = prefix

\* strings.HasSuffix
HasSuffix(s, suffix) ==
    Len(s) >= Len(suffix) /\ SubSeq(s, Len(s) - Len(suffix) + 1, Len(s)) = suffix

(***************************************************************************)
(* internal/config: ArianeConfig and its methods.  A Go map is a function; *)
(* ranging over it visits its keys in an order the runtime chooses.        *)
(***************************************************************************)

\* yaml.Unmarshal of the configuration document into ArianeConfig: the
\* mappings of the document (sequences of key/value pairs, in document
\* order, keys distinct) become Go maps.
Unmarshal(doc) ==
    [Triggers |->
        [p \in {doc.triggers[j].regex : j \in DOMAIN doc.triggers} |->
            [Workflows |->
                doc.triggers[CHOOSE j \in DOMAIN doc.triggers :
                                 doc.triggers[j].regex = p].workflows]],
     Workflows |-> doc.workflows,
     AllowedTeams |-> doc.allowedTeams]

\* The orders in which a range over a map with these keys may visit them.
RangeOrders(keys) ==
    {o \in [1..Cardinality(keys) -> keys] : \A k \in keys : \E j \in DOMAIN o : o[j] = k}

NoMatch == [submatch |-> << >>, workflows |-> << >>]

RECURSIVE CheckForTriggerFrom_StopAtInvalid(_, _, _, _)
\* CheckForTriggerFrom with `return nil, nil` for `continue` on a pattern
\* that does not compile.
CheckForTriggerFrom_StopAtInvalid(config, comment, order, k) ==
    IF k > Len(order) THEN NoMatch
    ELSE LET regex == order[k]
             trigger == config.Triggers[regex]
             re == Compile(<< "^" >> \o regex \o << "$" >>)
         IN  IF ~re.ok THEN NoMatch
             ELSE LET submatch == FindStringSubmatch(re, comment)
                  IN  IF submatch # << >>
                      THEN [submatch |-> submatch, workflows |-> trigger.Workflows]
                      ELSE CheckForTriggerFrom_StopAtInvalid(config, comment, order, k + 1)

RECURSIVE CheckForTriggerFrom(_, _, _, _)
\* The loop of CheckForTrigger from the k-th key of the iteration order.
CheckForTriggerFrom(config, comment, order, k) ==
    IF k > Len(order) THEN NoMatch
    ELSE LET regex == order[k]
             trigger == config.Triggers[regex]
             re == Compile(<< "^" >> \o regex \o << "$" >>)
         IN  IF ~re.ok THEN CheckForTriggerFrom(config, comment, order, k + 1)
             ELSE LET submatch == FindStringSubmatch(re, comment)
                  IN  IF submatch # << >>
                      THEN [submatch |-> submatch, workflows |-> trigger.Workflows]
                      ELSE CheckForTriggerFrom(config, comment, order, k + 1)

\* (*ArianeConfig).CheckForTrigger, when the range over config.Triggers
\* visits the patterns in this order.
CheckForTrigger(config, comment, order) ==
    CheckForTriggerFrom(config, comment, order, 1)

\* ShouldRunOnlyWorkflowsFrom that looks at one file only.
ShouldRunOnlyWorkflowsFrom_OneFile(workflow, files, k) ==
    IF k > Len(files) THEN FALSE
    ELSE LET filename == files[k]
         IN  ~HasPrefix(filename, WorkflowsDir) \/ filename = WorkflowFile(workflow)

RECURSIVE ShouldRunOnlyWorkflowsFrom(_, _, _)
\* The loop of ShouldRunOnlyWorkflows from the k-th file.
ShouldRunOnlyWorkflowsFrom(workflow, files, k) ==
    IF k > Len(files) THEN FALSE
    ELSE LET filename == files[k]
         IN  IF ~HasPrefix(filename, WorkflowsDir) \/ filename = WorkflowFile(workflow)
             THEN TRUE
             ELSE ShouldRunOnlyWorkflowsFrom(workflow, files, k + 1)

\* ShouldRunOnlyWorkflows without the test for the workflow's own file.
ShouldRunOnlyWorkflows_NoOwnFile(config, workflow, files) ==
    \E k \in DOMAIN files : ~HasPrefix(files[k], WorkflowsDir)

\* (*ArianeConfig).ShouldRunOnlyWorkflows
ShouldRunOnlyWorkflows(config, workflow, files) ==
    ShouldRunOnlyWorkflowsFrom(workflow, files, 1)

RECURSIVE ScanFiles_OtherWorkflowsCount(_, _, _, _, _, _)
\* ScanFiles without the branch that counts the files of other workflows
\* as ignored.
ScanFiles_OtherWorkflowsCount(workflow, files, re, reIgnore, k, numberIgnoredFiles) ==
    IF k > Len(files)
    THEN IF ~re.nil /\ reIgnore.nil THEN FALSE
         ELSE numberIgnoredFiles < Len(files)
    ELSE LET filename == files[k]
         IN  IF filename = WorkflowFile(workflow)
                \/ (~re.nil /\ MatchString(re, filename))
             THEN TRUE
             ELSE IF ~reIgnore.nil /\ MatchString(reIgnore, filename)
             THEN ScanFiles_OtherWorkflowsCount(workflow, files, re, reIgnore, k + 1,
                                                numberIgnoredFiles + 1)
             ELSE ScanFiles_OtherWorkflowsCount(workflow, files, re, reIgnore, k + 1,
                                                numberIgnoredFiles)

RECURSIVE ScanFiles_NoRegexOnlyCase(_, _, _, _, _, _)
\* ScanFiles without `if re != nil && reIgnore == nil { return false }`.
ScanFiles_NoRegexOnlyCase(workflow, files, re, reIgnore, k, numberIgnoredFiles) ==
    IF k > Len(files)
    THEN numberIgnoredFiles < Len(files)
    ELSE LET filename == files[k]
         IN  IF filename = WorkflowFile(workflow)
                \/ (~re.nil /\ MatchString(re, filename))
             THEN TRUE
             ELSE IF HasPrefix(filename, WorkflowsDir)
             THEN ScanFiles_NoRegexOnlyCase(workflow, files, re, reIgnore, k + 1,
                                            numberIgnoredFiles + 1)
             ELSE IF ~reIgnore.nil /\ MatchString(reIgnore, filename)
             THEN ScanFiles_NoRegexOnlyCase(workflow, files, re, reIgnore, k + 1,
                                            numberIgnoredFiles + 1)
             ELSE ScanFiles_NoRegexOnlyCase(workflow, files, re, reIgnore, k + 1,
                                            numberIgnoredFiles)

RECURSIVE ScanFiles_WorkflowsDirWithSlash(_, _, _, _, _, _)
\* ScanFiles that takes only the files in the directory .github/workflows/
\* as files of other workflows.
ScanFiles_WorkflowsDirWithSlash(workflow, files, re, reIgnore, k, numberIgnoredFiles) ==
    IF k > Len(files)
    THEN IF ~re.nil /\ reIgnore.nil THEN FALSE
         ELSE numberIgnoredFiles < Len(files)
    ELSE LET filename == files[k]
         IN  IF filename = WorkflowFile(workflow)
                \/ (~re.nil /\ MatchString(re, filename))
             THEN TRUE
             ELSE IF HasPrefix(filename, WorkflowsDir \o << "/" >>)
             THEN ScanFiles_WorkflowsDirWithSlash(workflow, files, re, reIgnore, k + 1,
                                                  numberIgnoredFiles + 1)
             ELSE IF ~reIgnore.nil /\ MatchString(reIgnore, filename)
             THEN ScanFiles_WorkflowsDirWithSlash(workflow, files, re, reIgnore, k + 1,
                                                  numberIgnoredFiles + 1)
             ELSE ScanFiles_WorkflowsDirWithSlash(workflow, files, re, reIgnore, k + 1,
                                                  numberIgnoredFiles)

RECURSIVE ScanFiles_StopAtOtherWorkflow(_, _, _, _, _, _)
\* ScanFiles that answers false at the first file of another workflow.
ScanFiles_StopAtOtherWorkflow(workflow, files, re, reIgnore, k, numberIgnoredFiles) ==
    IF k > Len(files)
    THEN IF ~re.nil /\ reIgnore.nil THEN FALSE
         ELSE numberIgnoredFiles < Len(files)
    ELSE LET filename == files[k]
         IN  IF filename = WorkflowFile(workflow)
                \/ (~re.nil /\ MatchString(re, filename))
             THEN TRUE
             ELSE IF HasPrefix(filename, WorkflowsDir)
             THEN FALSE
             ELSE IF ~reIgnore.nil /\ MatchString(reIgnore, filename)
             THEN ScanFiles_StopAtOtherWorkflow(workflow, files, re, reIgnore, k + 1,
                                                numberIgnoredFiles + 1)
             ELSE ScanFiles_StopAtOtherWorkflow(workflow, files, re, reIgnore, k + 1,
                                                numberIgnoredFiles)

RECURSIVE ScanFiles(_, _, _, _, _, _)
\* The loop of ShouldRunWorkflow from the k-th file, and what follows it.
ScanFiles(workflow, files, re, reIgnore, k, numberIgnoredFiles) ==
    IF k > Len(files)
    THEN IF ~re.nil /\ reIgnore.nil THEN FALSE
         ELSE numberIgnoredFiles < Len(files)
    ELSE LET filename == files[k]
         IN  IF filename = WorkflowFile(workflow)
                \/ (~re.nil /\ MatchString(re, filename))
             THEN TRUE
             ELSE IF HasPrefix(filename, WorkflowsDir)
             THEN ScanFiles(workflow, files, re, reIgnore, k + 1, numberIgnoredFiles + 1)
             ELSE IF ~reIgnore.nil /\ MatchString(reIgnore, filename)
             THEN ScanFiles(workflow, files, re, reIgnore, k + 1, numberIgnoredFiles + 1)
             ELSE ScanFiles(workflow, files, re, reIgnore, k + 1, numberIgnoredFiles)

\* CompileAndScan that takes a pattern that does not compile as not set.
CompileAndScan_PastCompileErrors(workflowConfig, workflow, files) ==
    LET compiled(pattern) ==
            IF pattern # << >> /\ Compile(<< "^" >> \o pattern).ok
            THEN Compile(<< "^" >> \o pattern)
            ELSE NilRegexp
    IN  ScanFiles(workflow, files, compiled(workflowConfig.PathsRegex),
                  compiled(workflowConfig.PathsIgnoreRegex), 1, 0)

\* ShouldRunWorkflow from the compilation of the patterns on.
CompileAndScan(workflowConfig, workflow, files) ==
    LET re == IF workflowConfig.PathsRegex # << >>
              THEN Compile(<< "^" >> \o workflowConfig.PathsRegex)
              ELSE NilRegexp
    IN  IF ~re.ok THEN FALSE
        ELSE LET reIgnore == IF workflowConfig.PathsIgnoreRegex # << >>
                             THEN Compile(<< "^" >> \o workflowConfig.PathsIgnoreRegex)
                             ELSE NilRegexp
             IN  IF ~reIgnore.ok THEN FALSE
                 ELSE ScanFiles(workflow, files, re, reIgnore, 1, 0)

\* ShouldRunWorkflowRules without the default for both patterns defined.
ShouldRunWorkflowRules_NoDefault(workflowConfig, workflow, files) ==
    CompileAndScan(workflowConfig, workflow, files)

\* ShouldRunWorkflow for a workflow that has an entry, from the test for
\* both patterns defined on.
ShouldRunWorkflowRules(workflowConfig, workflow, files) ==
    IF workflowConfig.PathsRegex # << >> /\ workflowConfig.PathsIgnoreRegex # << >>
    THEN TRUE
    ELSE CompileAndScan(workflowConfig, workflow, files)

\* ShouldRunWorkflow without `if len(files) == 0 { return false }`.
ShouldRunWorkflow_NoEmptyCheck(config, workflow, files) ==
    IF workflow \notin DOMAIN config.Workflows THEN FALSE
    ELSE ShouldRunWorkflowRules(config.Workflows[workflow], workflow, files)

\* (*ArianeConfig).ShouldRunWorkflow
ShouldRunWorkflow(config, workflow, files) ==
    IF Len(files) = 0 THEN FALSE
    ELSE IF workflow \notin DOMAIN config.Workflows THEN FALSE
    ELSE ShouldRunWorkflowRules(config.Workflows[workflow], workflow, files)

(***************************************************************************)
(* internal/handlers: the issue_comment handler.                           *)
(***************************************************************************)

\* shouldRunWorkflow that applies ShouldRunWorkflow to every workflow.
shouldRunWorkflow_AlwaysConfigured(config, workflow, files) ==
    ShouldRunWorkflow(config, workflow, files)

\* (*PRCommentHandler).shouldRunWorkflow
shouldRunWorkflow(config, workflow, files) ==
    IF workflow \in DOMAIN config.Workflows
    THEN ShouldRunWorkflow(config, workflow, files)
    ELSE ShouldRunOnlyWorkflows(config, workflow, files)

\* The 10 digits of strconv.Itoa.
Digits == << "0", "1", "2", "3", "4", "5", "6", "7", "8", "9" >>

RECURSIVE Itoa(_)
\* strconv.Itoa, for n >= 0
Itoa(n) ==
    IF n < 10 THEN << Digits[n + 1] >>
    ELSE Itoa(n \div 10) \o << Digits[(n % 10) + 1] >>

RECURSIVE JsonEscape(_)
\* The body of a JSON string, as encoding/json writes it: the quote, the
\* backslash and the newline are escaped, and so are <, > and & (Marshal
\* escapes HTML); the other characters of the model's texts are written as
\* they are.
JsonEscape(s) ==
    IF s = << >> THEN << >>
    ELSE (CASE Head(s) = "\"" -> << "\\", "\"" >>
            [] Head(s) = "\\" -> << "\\", "\\" >>
            [] Head(s) = "\n" -> << "\\", "n" >>
            [] Head(s) = "<" -> << "\\", "u", "0", "0", "3", "c" >>
            [] Head(s) = ">" -> << "\\", "u", "0", "0", "3", "e" >>
            [] Head(s) = "&" -> << "\\", "u", "0", "0", "2", "6" >>
            [] OTHER -> << Head(s) >>) \o JsonEscape(Tail(s))

\* string(json.Marshal(s)) for a string s
JsonMarshalString(s) == << "\"" >> \o JsonEscape(s) \o << "\"" >>

\* What (*github.Response).NextPage is on the last page.
NoNextPage == 0

\* getPullRequestFrom that gives up after the page it asked for.
getPullRequestFrom_OnePage(listing, prNumber, page, fetched) ==
    LET answer == listing[page]
        asked == Append(fetched, page)
    IN  IF answer.err
        THEN [pr |-> << >>, err |-> "PullRequests.List failed", fetched |-> asked]
        ELSE IF \E j \in DOMAIN answer.prs : answer.prs[j].Number = prNumber
        THEN [pr |-> answer.prs[CHOOSE j \in DOMAIN answer.prs :
                                   /\ answer.prs[j].Number = prNumber
                                   /\ \A h \in 1..(j - 1) : answer.prs[h].Number # prNumber],
              err |-> "nil", fetched |-> asked]
        ELSE [pr |-> << >>, err |-> "pull request not found", fetched |-> asked]

RECURSIVE getPullRequestFrom(_, _, _, _)
\* The loop of getPullRequest when it asks for this page; listing[k] is
\* what the server answers for page k.  fetched: the pages asked so far.
getPullRequestFrom(listing, prNumber, page, fetched) ==
    LET answer == listing[page]
        asked == Append(fetched, page)
    IN  IF answer.err
        THEN [pr |-> << >>, err |-> "PullRequests.List failed", fetched |-> asked]
        ELSE IF \E j \in DOMAIN answer.prs : answer.prs[j].Number = prNumber
        THEN [pr |-> answer.prs[CHOOSE j \in DOMAIN answer.prs :
                                   /\ answer.prs[j].Number = prNumber
                                   /\ \A h \in 1..(j - 1) : answer.prs[h].Number # prNumber],
              err |-> "nil", fetched |-> asked]
        ELSE IF answer.NextPage = NoNextPage
        THEN [pr |-> << >>, err |-> "pull request not found", fetched |-> asked]
        ELSE getPullRequestFrom(listing, prNumber, answer.NextPage, asked)

\* (*PRCommentHandler).getPullRequest; the first request has no page
\* number and is answered with the first page.
getPullRequest(listing, prNumber) == getPullRequestFrom(listing, prNumber, 1, << >>)

\* determineContextRef that compares the owners only.
determineContextRef_OwnerOnly(pullRequest, owner, repo) ==
    LET prOwner == pullRequest.Head.Repo.Owner
    IN  [contextRef |-> IF prOwner # owner
                        THEN pullRequest.Base.Ref
                        ELSE pullRequest.Head.Ref,
         SHA |-> pullRequest.Head.SHA]

\* (*PRCommentHandler).determineContextRef
determineContextRef(pullRequest, owner, repo) ==
    LET prOwner == pullRequest.Head.Repo.Owner
        prRepo == pullRequest.Head.Repo.Name
    IN  [contextRef |-> IF prOwner # owner \/ prRepo # repo
                        THEN pullRequest.Base.Ref
                        ELSE pullRequest.Head.Ref,
         SHA |-> pullRequest.Head.SHA]

RECURSIVE isAllowedTeamMemberFrom_AnyState(_, _, _, _)
\* isAllowedTeamMemberFrom without the test of the state of the membership.
isAllowedTeamMemberFrom_AnyState(teams, answers, k, asked) ==
    IF k > Len(teams) THEN [allowed |-> FALSE, asked |-> asked]
    ELSE LET a == answers[k]
             now == Append(asked, teams[k])
         IN  IF a.err /\ (a.noResponse \/ a.StatusCode # 404)
             THEN [allowed |-> FALSE, asked |-> now]
             ELSE IF a.StatusCode = 404
             THEN isAllowedTeamMemberFrom_AnyState(teams, answers, k + 1, now)
             ELSE [allowed |-> TRUE, asked |-> now]

RECURSIVE isAllowedTeamMemberFrom_PastErrors(_, _, _, _)
\* isAllowedTeamMemberFrom that tries the next team after any error.
isAllowedTeamMemberFrom_PastErrors(teams, answers, k, asked) ==
    IF k > Len(teams) THEN [allowed |-> FALSE, asked |-> asked]
    ELSE LET a == answers[k]
             now == Append(asked, teams[k])
         IN  IF a.err \/ a.StatusCode = 404 \/ a.State # "active"
             THEN isAllowedTeamMemberFrom_PastErrors(teams, answers, k + 1, now)
             ELSE [allowed |-> TRUE, asked |-> now]

RECURSIVE isAllowedTeamMemberFrom(_, _, _, _)
\* The loop of isAllowedTeamMember from the k-th team; answers[k] is what
\* the server answers for the k-th team.  asked: the teams looked up so far.
isAllowedTeamMemberFrom(teams, answers, k, asked) ==
    IF k > Len(teams) THEN [allowed |-> FALSE, asked |-> asked]
    ELSE LET a == answers[k]
             now == Append(asked, teams[k])
         IN  IF a.err /\ (a.noResponse \/ a.StatusCode # 404)
             THEN [allowed |-> FALSE, asked |-> now]
             ELSE IF a.StatusCode = 404 \/ a.State # "active"
             THEN isAllowedTeamMemberFrom(teams, answers, k + 1, now)
             ELSE [allowed |-> TRUE, asked |-> now]

\* (*PRCommentHandler).isAllowedTeamMember
isAllowedTeamMember(config, answers) ==
    IF Len(config.AllowedTeams) = 0 THEN [allowed |-> TRUE, asked |-> << >>]
    ELSE isAllowedTeamMemberFrom(config.AllowedTeams, answers, 1, << >>)

\* createWorkflowDispatchEvent that takes the last group of the submatch
\* as the extra arguments.
createWorkflowDispatchEvent_LastGroup(prNumber, ref, sha, match) ==
    [Ref |-> ref,
     Inputs |->
        IF Len(match) > 1
        THEN [n \in {"PR-number", "context-ref", "SHA", "extra-args"} |->
                CASE n = "PR-number" -> Itoa(prNumber)
                  [] n = "context-ref" -> ref
                  [] n = "SHA" -> sha
                  [] n = "extra-args" -> JsonMarshalString(match[Len(match)])]
        ELSE [n \in {"PR-number", "context-ref", "SHA"} |->
                CASE n = "PR-number" -> Itoa(prNumber)
                  [] n = "context-ref" -> ref
                  [] n = "SHA" -> sha]]

\* (*PRCommentHandler).createWorkflowDispatchEvent
createWorkflowDispatchEvent(prNumber, ref, sha, match) ==
    [Ref |-> ref,
     Inputs |->
        IF Len(match) > 1
        THEN [n \in {"PR-number", "context-ref", "SHA", "extra-args"} |->
                CASE n = "PR-number" -> Itoa(prNumber)
                  [] n = "context-ref" -> ref
                  [] n = "SHA" -> sha
                  [] n = "extra-args" -> JsonMarshalString(match[2])]
        ELSE [n \in {"PR-number", "context-ref", "SHA"} |->
                CASE n = "PR-number" -> Itoa(prNumber)
                  [] n = "context-ref" -> ref
                  [] n = "SHA" -> sha]]

RECURSIVE getPRFilesFrom(_, _, _, _)
\* The loop of getPRFiles when it asks for this page; listing[k] is what the
\* server answers for page k.  files: the files appended so far.
getPRFilesFrom(listing, page, files, fetched) ==
    LET answer == listing[page]
        asked == Append(fetched, page)
    IN  IF answer.err
        THEN [files |-> << >>, err |-> "PullRequests.ListFiles failed", fetched |-> asked]
        ELSE IF answer.NextPage = NoNextPage
        THEN [files |-> files \o answer.files, err |-> "nil", fetched |-> asked]
        ELSE getPRFilesFrom(listing, answer.NextPage, files \o answer.files, asked)

\* (*PRCommentHandler).getPRFiles; the first request has no page number and
\* is answered with the first page.
getPRFiles(listing) == getPRFilesFrom(listing, 1, << >>, << >>)

\* shouldSkipWorkflow with true for a last run that failed.
shouldSkipWorkflow_FailureSkipped(answer) ==
    IF answer.err THEN FALSE
    ELSE IF ~answer.nil /\ Len(answer.WorkflowRuns) > 0
    THEN LET lastRun == answer.WorkflowRuns[1]
         IN  IF lastRun.Status = "completed"
             THEN lastRun.Conclusion \in {"success", "skipped", "failure"}
             ELSE FALSE
    ELSE FALSE

\* shouldSkipWorkflow with true when the runs could not be listed.
shouldSkipWorkflow_SkipOnError(answer) ==
    IF answer.err THEN TRUE
    ELSE IF ~answer.nil /\ Len(answer.WorkflowRuns) > 0
    THEN LET lastRun == answer.WorkflowRuns[1]
         IN  IF lastRun.Status = "completed"
             THEN IF lastRun.Conclusion = "success" \/ lastRun.Conclusion = "skipped"
                  THEN TRUE
                  ELSE FALSE
             ELSE FALSE
    ELSE FALSE

\* (*PRCommentHandler).shouldSkipWorkflow, given what
\* ListWorkflowRunsByFileName answers.
shouldSkipWorkflow(answer) ==
    IF answer.err THEN FALSE
    ELSE IF ~answer.nil /\ Len(answer.WorkflowRuns) > 0
    THEN LET lastRun == answer.WorkflowRuns[1]
         IN  IF lastRun.Status = "completed"
             THEN IF lastRun.Conclusion = "success" \/ lastRun.Conclusion = "skipped"
                  THEN TRUE
                  ELSE FALSE
             ELSE FALSE
    ELSE FALSE

\* WorkflowDecision without the call of shouldSkipWorkflow.
WorkflowDecision_NoSkip(config, workflow, changed, runsAnswer) ==
    IF shouldRunWorkflow(config, workflow, changed) THEN "triggerWorkflow"
    ELSE "markWorkflowAsSkipped"

\* WorkflowDecision that looks at the changed files first and at the last
\* run only for a workflow that they do not make run.
WorkflowDecision_RelevanceFirst(config, workflow, changed, runsAnswer) ==
    IF shouldRunWorkflow(config, workflow, changed) THEN "triggerWorkflow"
    ELSE IF shouldSkipWorkflow(runsAnswer) THEN "continue"
    ELSE "markWorkflowAsSkipped"

\* The body of the loop of Handle over workflowsToTrigger: what is done
\* about one workflow.
WorkflowDecision(config, workflow, changed, runsAnswer) ==
    IF shouldSkipWorkflow(runsAnswer) THEN "continue"
    ELSE IF shouldRunWorkflow(config, workflow, changed) THEN "triggerWorkflow"
    ELSE "markWorkflowAsSkipped"

(***************************************************************************)
(* The texts the model draws its inputs from.                              *)
(***************************************************************************)

FooYaml == << "f", ".", "y" >>

BarYaml == << "b", ".", "y" >>

WorkflowNames == {FooYaml, BarYaml}

\* Trigger patterns: /c   /c (.+)   /t   \i   /c|/t   (/c|/t)
TriggerPatterns ==
    { << "/", "c" >>,
      << "/", "c", " ", "(", ".", "+", ")" >>,
      << "/", "t" >>,
      << "\\", "i" >>,
      << "/", "c", "|", "/", "t" >>,
      << "(", "/", "c", "|", "/", "t", ")" >> }

\* Comment bodies: /c   /c x   /t   x /t   /c x\n   and the empty comment
Comments ==
    { << "/", "c" >>,
      << "/", "c", " ", "x" >>,
      << "/", "t" >>,
      << "x", " ", "/", "t" >>,
      << "/", "c", " ", "x", "\n" >>,
      << >> }

\* paths-regex values: unset   (x|y)/   \i   x/|d/
PathsRegexes ==
    { << >>,
      << "(", "x", "|", "y", ")", "/" >>,
      << "\\", "i" >>,
      << "x", "/", "|", "d", "/" >> }

\* paths-ignore-regex values: unset   (t|d)/   \i   \.g
PathsIgnoreRegexes ==
    { << >>,
      << "(", "t", "|", "d", ")", "/" >>,
      << "\\", "i" >>,
      << "\\", ".", "g" >> }

\* Changed files: the two workflow files, .github/workflowsx, x/a, t/a, n/d/a
FileNames ==
    { WorkflowFile(FooYaml),
      WorkflowFile(BarYaml),
      WorkflowsDir \o << "x" >>,
      << "x", "/", "a" >>,
      << "t", "/", "a" >>,
      << "n", "/", "d", "/", "a" >> }

\* Longest list of changed files drawn.
MaxFiles == 3

\* Most trigger patterns in a configuration drawn.
MaxTriggers == 2

SeqsUpTo(S, n) == UNION {[1..m -> S] : m \in 0..n}

\* The triggers mappings of a configuration document: distinct patterns, in
\* document order, each with a workflow list.
TriggerDocs ==
    {t \in SeqsUpTo([regex : TriggerPatterns, workflows : {<< FooYaml >>, << BarYaml >>}],
                    MaxTriggers) :
        \A a, b \in DOMAIN t : a # b => t[a].regex # t[b].regex}

\* The workflows mappings drawn: no entry, or one entry for f.y.
WorkflowMaps ==
    {<< >>} \cup
    {[w \in {FooYaml} |-> [PathsRegex |-> r, PathsIgnoreRegex |-> g]] :
        r \in PathsRegexes, g \in PathsIgnoreRegexes}

\* Most pages a listing (of pull requests, of changed files) has.
MaxPages == 2

\* Most teams in allowed-teams.
MaxTeams == 2

\* The repository of the event: its owner's login and its name.
RepositoryOwner == << "c", "i" >>

RepositoryName == "ariane"

\* Comment authors: a person, the owner's bot ci[bot], another bot d[bot].
Authors ==
    { << "a", "l" >>,
      << "c", "i", "[", "b", "o", "t", "]" >>,
      << "d", "[", "b", "o", "t", "]" >> }

\* The number of the commented issue, and the id of the comment.
IssueNumber == 12

CommentID == 7

\* Comment bodies of the events: /c   /c x   x /t
EventComments ==
    { << "/", "c" >>,
      << "/", "c", " ", "x" >>,
      << "x", " ", "/", "t" >> }

MalformedPayload == [valid |-> FALSE]

\* The payloads delivered: one that json.Unmarshal rejects, and the events.
Events ==
    {MalformedPayload} \cup
    [valid : {TRUE}, isPullRequest : BOOLEAN, action : {"created", "edited", "deleted"},
     author : Authors, body : EventComments, number : {IssueNumber},
     owner : {RepositoryOwner}, repo : {RepositoryName}, commentID : {CommentID}]

\* An open pull request, of a branch of the repository or of a fork.
PullRequest(number, fork) ==
    [Number |-> number,
     Head |-> [SHA |-> "headsha", Ref |-> "feature",
               Repo |-> [Owner |-> IF fork THEN << "a", "l" >> ELSE RepositoryOwner,
                         Name |-> RepositoryName]],
     Base |-> [Ref |-> "main"]]

\* An open pull request of a branch of another repository of the owner.
PullRequestOfSibling(number) ==
    [PullRequest(number, FALSE) EXCEPT !.Head.Repo.Name = "ariane-fork"]

\* What a page of open pull requests holds.
PullRequestPages ==
    { << PullRequest(IssueNumber + 1, FALSE) >>,
      << PullRequest(IssueNumber, FALSE) >>,
      << PullRequest(IssueNumber, TRUE) >>,
      << PullRequestOfSibling(IssueNumber) >> }

\* The answers of PullRequests.List, page by page: each page names the
\* next one, the last one names none; any request may fail.
PullRequestListings ==
    UNION {{[k \in 1..n |-> [prs |-> c[k], err |-> e[k],
                             NextPage |-> IF k < n THEN k + 1 ELSE NoNextPage]] :
               c \in [1..n -> PullRequestPages], e \in [1..n -> BOOLEAN]} :
           n \in 1..MaxPages}

\* What the last page of changed files holds: nothing, f.y's file, t/a.
ChangedFilePages ==
    { << >>,
      << WorkflowFile(FooYaml) >>,
      << << "t", "/", "a" >> >> }

\* What a page before the last holds: it is full.
FullChangedFilePages == { << << "t", "/", "a" >> >> }

\* The answers of PullRequests.ListFiles, page by page: each page names the
\* next one, the last one names none; any request may fail.
ChangedFileListings ==
    UNION {{[k \in 1..n |-> [files |-> c[k], err |-> e[k],
                             NextPage |-> IF k < n THEN k + 1 ELSE NoNextPage]] :
               c \in {d \in [1..n -> ChangedFilePages] :
                         \A k \in 1..(n - 1) : d[k] \in FullChangedFilePages},
               e \in [1..n -> BOOLEAN]} :
           n \in 1..MaxPages}

TeamNames == << "team1", "team2", "team3", "team4" >>

\* The triggers of the configurations the events meet.
EventTriggerDocs ==
    { << [regex |-> << "/", "c" >>, workflows |-> << FooYaml, BarYaml >>] >>,
      << [regex |-> << "/", "c" >>, workflows |-> << FooYaml >>],
         [regex |-> << "(", "/", "c", "|", "/", "t", ")" >>, workflows |-> << BarYaml >>] >>,
      << [regex |-> << "/", "c", " ", "(", ".", "+", ")" >>, workflows |-> << BarYaml, FooYaml >>],
         [regex |-> << "\\", "i" >>, workflows |-> << BarYaml >>] >>,
      << [regex |-> << "/", "c" >>, workflows |-> << >>] >>,
      << [regex |-> << "/", "c", " ", "x" >>, workflows |-> << BarYaml, BarYaml >>] >> }

\* Their workflows: no entry, f.y with paths-ignore-regex (t|d)/, or f.y
\* with the paths-regex \i, which does not compile.
EventWorkflowMaps ==
    { << >>,
      [w \in {FooYaml} |->
          [PathsRegex |-> << >>,
           PathsIgnoreRegex |-> << "(", "t", "|", "d", ")", "/" >>]],
      [w \in {FooYaml} |->
          [PathsRegex |-> << "\\", "i" >>, PathsIgnoreRegex |-> << >>]] }

\* The documents .github/ariane-config.yaml may hold.
ConfigDocs ==
    [triggers : EventTriggerDocs, workflows : EventWorkflowMaps,
     allowedTeams : {SubSeq(TeamNames, 1, n) : n \in 0..MaxTeams}]

\* The answers of Teams.GetTeamMembershipBySlug, with what the author is in
\* the team: a membership (active or pending), a 404 for none, and a
\* failure of the request (with or without a response).
MembershipAnswers ==
    { [member |-> "active", err |-> FALSE, noResponse |-> FALSE, StatusCode |-> 200, State |-> "active"],
      [member |-> "pending", err |-> FALSE, noResponse |-> FALSE, StatusCode |-> 200, State |-> "pending"],
      [member |-> "none", err |-> TRUE, noResponse |-> FALSE, StatusCode |-> 404, State |-> ""],
      [member |-> "active", err |-> TRUE, noResponse |-> FALSE, StatusCode |-> 500, State |-> ""],
      [member |-> "active", err |-> TRUE, noResponse |-> TRUE, StatusCode |-> 0, State |-> ""],
      [member |-> "none", err |-> TRUE, noResponse |-> TRUE, StatusCode |-> 0, State |-> ""] }

\* The answers of Actions.ListWorkflowRunsByFileName: a failure, no run,
\* or the last run (ended well, still going, or failed).
RunsAnswers ==
    { [err |-> TRUE, nil |-> TRUE, WorkflowRuns |-> << >>],
      [err |-> FALSE, nil |-> FALSE, WorkflowRuns |-> << >>],
      [err |-> FALSE, nil |-> FALSE,
       WorkflowRuns |-> << [Status |-> "completed", Conclusion |-> "success"] >>],
      [err |-> FALSE, nil |-> FALSE,
       WorkflowRuns |-> << [Status |-> "in_progress", Conclusion |-> ""] >>],
      [err |-> FALSE, nil |-> FALSE,
       WorkflowRuns |-> << [Status |-> "completed", Conclusion |-> "failure"] >>] }

VARIABLES
    pc,         \* where the issue_comment handler stands
    event,      \* the payload it was delivered
    result,     \* what Handle returned: "none" until it returns
    calls,      \* the calls it made to GitHub, in order
    botUser,    \* Handle's botUser
    pr,         \* Handle's pr
    contextRef, \* Handle's contextRef
    SHA,        \* Handle's SHA
    arianeConfig,   \* Handle's arianeConfig
    activeMember,   \* whether the author is an active member of a team of
                    \* allowed-teams, as GitHub has it
    submatch,       \* Handle's submatch
    workflowsToTrigger,     \* Handle's workflowsToTrigger
    workflowDispatchEvent,  \* Handle's workflowDispatchEvent
    files,      \* Handle's files
    loopIndex,  \* the position of the loop over workflowsToTrigger
    input,      \* the arguments a function of internal/config is applied to
    output      \* what it returned

hvars ==
    << pc, event, result, calls, botUser, pr, contextRef, SHA, arianeConfig,
       activeMember, submatch, workflowsToTrigger, workflowDispatchEvent,
       files, loopIndex >>

vars == << hvars, input, output >>

NoEvent == [valid |-> FALSE, delivered |-> FALSE]

\* Handle has not been called.
HandlerIdle ==
    /\ pc = "idle"
    /\ event = NoEvent
    /\ result = "none"
    /\ calls = << >>
    /\ botUser = FALSE
    /\ pr = << >>
    /\ contextRef = ""
    /\ SHA = ""
    /\ arianeConfig = << >>
    /\ activeMember = FALSE
    /\ submatch = << >>
    /\ workflowsToTrigger = << >>
    /\ workflowDispatchEvent = << >>
    /\ files = << >>
    /\ loopIndex = 0

NoOutput == [fn |-> "none"]

(***************************************************************************)
(* CheckForTrigger applied to a configuration and a comment.               *)
(***************************************************************************)

InitTrigger ==
    /\ HandlerIdle
    /\ input \in [doc : {[triggers |-> t, workflows |-> << >>, allowedTeams |-> << >>] :
                            t \in TriggerDocs},
                  comment : Comments]
    /\ output = NoOutput

CallCheckForTrigger ==
    /\ output = NoOutput
    /\ LET config == Unmarshal(input.doc)
       IN  \E order \in RangeOrders(DOMAIN config.Triggers) :
               LET r == CheckForTrigger(config, input.comment, order)
               IN  output' = [fn |-> "CheckForTrigger", order |-> order,
                              submatch |-> r.submatch, workflows |-> r.workflows]
    /\ UNCHANGED << input, hvars >>

NextTrigger == CallCheckForTrigger

SpecTrigger == InitTrigger /\ [][NextTrigger]_vars

\* The configuration CheckForTrigger was applied to.
TriggerConfig == Unmarshal(input.doc)

\* The pattern, taken by itself, matches the whole of s.
MatchesWhole(pattern, s) ==
    LET re == Compile(pattern)
    IN  /\ re.ok
        /\ \E m \in {MatchNode(re.node, s, 0, [g \in 1..re.ng |-> << >>])} :
               \E j \in DOMAIN m : m[j].pos = Len(s)

\* What CheckForTrigger finds with this pattern: the submatch of the
\* compiled ^pattern$ in the comment, nil if it does not compile.
TriggerSubmatch(pattern, comment) ==
    LET re == Compile(<< "^" >> \o pattern \o << "$" >>)
    IN  IF re.ok THEN FindStringSubmatch(re, comment) ELSE << >>

\* The positions, in the configuration document, of the patterns that
\* CheckForTrigger finds in the comment.
MatchingTriggers ==
    {j \in DOMAIN input.doc.triggers :
        TriggerSubmatch(input.doc.triggers[j].regex, input.comment) # << >>}

\* C2: CheckForTrigger matches a pattern against the whole comment only: a
\* comment that no configured pattern matches as a whole (for one, a text
\* the pattern matches followed by more) gives nil, nil, and group 0 of a
\* returned submatch is the whole comment.
C2_WholeCommentOnly ==
    output.fn = "CheckForTrigger" =>
        /\ output.submatch # << >> => output.submatch[1] = input.comment
        /\ (\A p \in DOMAIN TriggerConfig.Triggers : ~MatchesWhole(p, input.comment))
               => output.submatch = << >> /\ output.workflows = << >>

\* C3, as claimed: when several patterns match the comment, CheckForTrigger
\* returns the submatch and the workflows of the first of them in the order
\* of the configuration document.
C3_FirstInConfigurationOrder ==
    output.fn = "CheckForTrigger" /\ MatchingTriggers # {} =>
        LET first == CHOOSE j \in MatchingTriggers : \A i \in MatchingTriggers : j <= i
        IN  /\ output.submatch =
                   TriggerSubmatch(input.doc.triggers[first].regex, input.comment)
            /\ output.workflows = input.doc.triggers[first].workflows

\* C3, amended: when one or several patterns match the comment,
\* CheckForTrigger returns the submatch and the workflows of one of them,
\* whichever the range over the triggers map meets first; when none matches
\* it returns nil, nil.
C3_SomeMatchingTrigger ==
    output.fn = "CheckForTrigger" =>
        IF MatchingTriggers = {}
        THEN output.submatch = << >> /\ output.workflows = << >>
        ELSE \E j \in MatchingTriggers :
                /\ output.submatch =
                       TriggerSubmatch(input.doc.triggers[j].regex, input.comment)
                /\ output.workflows = input.doc.triggers[j].workflows

\* Two patterns match and the result is that of the second of the document.
C3_Witness ==
    /\ output.fn = "CheckForTrigger"
    /\ Cardinality(MatchingTriggers) = 2
    /\ \E j \in MatchingTriggers :
          /\ \E i \in MatchingTriggers : i < j
          /\ output.workflows = input.doc.triggers[j].workflows
          /\ \A i \in MatchingTriggers :
                i < j => input.doc.triggers[i].workflows # output.workflows

(***************************************************************************)
(* The path-relevance functions applied to a workflows mapping, a workflow *)
(* and a list of changed files.                                            *)
(***************************************************************************)

InitPaths ==
    /\ HandlerIdle
    /\ input \in [config : {[Triggers |-> << >>, Workflows |-> m, AllowedTeams |-> << >>] :
                               m \in WorkflowMaps},
                  workflow : WorkflowNames,
                  files : SeqsUpTo(FileNames, MaxFiles)]
    /\ output = NoOutput

CallShouldRunWorkflow ==
    /\ output = NoOutput
    /\ output' = [fn |-> "ShouldRunWorkflow",
                  ret |-> ShouldRunWorkflow(input.config, input.workflow, input.files)]
    /\ UNCHANGED << input, hvars >>

CallShouldRunOnlyWorkflows ==
    /\ output = NoOutput
    /\ output' = [fn |-> "ShouldRunOnlyWorkflows",
                  ret |-> ShouldRunOnlyWorkflows(input.config, input.workflow, input.files)]
    /\ UNCHANGED << input, hvars >>

CallshouldRunWorkflow ==
    /\ output = NoOutput
    /\ output' = [fn |-> "shouldRunWorkflow",
                  ret |-> shouldRunWorkflow(input.config, input.workflow, input.files)]
    /\ UNCHANGED << input, hvars >>

NextPaths ==
    \/ CallShouldRunWorkflow
    \/ CallShouldRunOnlyWorkflows
    \/ CallshouldRunWorkflow

SpecPaths == InitPaths /\ [][NextPaths]_vars

\* The workflows entry of the workflow the function was applied to.
HasEntry == input.workflow \in DOMAIN input.config.Workflows

Entry == input.config.Workflows[input.workflow]

OnlyPathsRegex ==
    HasEntry /\ Entry.PathsRegex # << >> /\ Entry.PathsIgnoreRegex = << >>

OnlyPathsIgnoreRegex ==
    HasEntry /\ Entry.PathsRegex = << >> /\ Entry.PathsIgnoreRegex # << >>

BothPatterns ==
    HasEntry /\ Entry.PathsRegex # << >> /\ Entry.PathsIgnoreRegex # << >>

\* The changed file matches ^pattern (the pattern compiles).
PathMatches(pattern, filename) ==
    LET re == Compile(<< "^" >> \o pattern)
    IN  re.ok /\ MatchString(re, filename)

Compiles(pattern) == Compile(<< "^" >> \o pattern).ok

OwnFileChanged ==
    \E k \in DOMAIN input.files : input.files[k] = WorkflowFile(input.workflow)

\* C6: ShouldRunWorkflow returns false for an empty list of changed files,
\* whatever the workflow and its path rules, both patterns defined included.
C6_EmptyListNeverRuns ==
    output.fn = "ShouldRunWorkflow" /\ input.files = << >> => output.ret = FALSE

\* An empty list for a workflow with both patterns defined.
C6_Witness ==
    /\ output.fn = "ShouldRunWorkflow"
    /\ input.files = << >>
    /\ BothPatterns
    /\ output.ret = FALSE

\* C7: with both paths-regex and paths-ignore-regex defined,
\* ShouldRunWorkflow returns true for every non-empty list of changed
\* files, whatever the files and whether or not the patterns compile.
C7_BothPatternsAlwaysRun ==
    output.fn = "ShouldRunWorkflow" /\ BothPatterns /\ input.files # << >>
        => output.ret = TRUE

\* Both defined, paths-regex does not compile and no file is one that its
\* paths-ignore-regex lets through.
C7_Witness ==
    /\ output.fn = "ShouldRunWorkflow"
    /\ BothPatterns
    /\ ~Compiles(Entry.PathsRegex)
    /\ Compiles(Entry.PathsIgnoreRegex)
    /\ input.files # << >>
    /\ \A k \in DOMAIN input.files : PathMatches(Entry.PathsIgnoreRegex, input.files[k])
    /\ output.ret = TRUE

\* C8, as claimed: with only paths-ignore-regex defined and a non-empty
\* list, ShouldRunWorkflow returns false if all changed files match the
\* ignore pattern and true if at least one does not.
C8_IgnorePatternAlone ==
    /\ output.fn = "ShouldRunWorkflow"
    /\ OnlyPathsIgnoreRegex
    /\ Compiles(Entry.PathsIgnoreRegex)
    /\ input.files # << >>
    => IF \A k \in DOMAIN input.files : PathMatches(Entry.PathsIgnoreRegex, input.files[k])
       THEN output.ret = FALSE
       ELSE output.ret = TRUE

\* C8, amended: with only paths-ignore-regex defined and a non-empty list,
\* ShouldRunWorkflow returns true if some changed file is the workflow's
\* own file, or neither matches the ignore pattern nor starts with
\* .github/workflows; it returns false otherwise, that is if every changed
\* file matches the ignore pattern or starts with .github/workflows and
\* none is the workflow's own file.
C8_IgnorePatternAndWorkflowFiles ==
    /\ output.fn = "ShouldRunWorkflow"
    /\ OnlyPathsIgnoreRegex
    /\ Compiles(Entry.PathsIgnoreRegex)
    /\ input.files # << >>
    => output.ret =
          (\/ OwnFileChanged
           \/ \E k \in DOMAIN input.files :
                 /\ ~HasPrefix(input.files[k], WorkflowsDir)
                 /\ ~PathMatches(Entry.PathsIgnoreRegex, input.files[k]))

\* A file of another workflow, which the ignore pattern does not match,
\* beside an ignored file: the workflow does not run.
C8_Witness ==
    /\ output.fn = "ShouldRunWorkflow"
    /\ OnlyPathsIgnoreRegex
    /\ Compiles(Entry.PathsIgnoreRegex)
    /\ \E k \in DOMAIN input.files :
          /\ HasPrefix(input.files[k], WorkflowsDir)
          /\ ~PathMatches(Entry.PathsIgnoreRegex, input.files[k])
    /\ \E k \in DOMAIN input.files : PathMatches(Entry.PathsIgnoreRegex, input.files[k])
    /\ output.ret = FALSE

\* C9: with only paths-regex defined, and compiling, ShouldRunWorkflow
\* returns true if and only if some changed file matches ^paths-regex or is
\* .github/workflows/<workflow>.
C9_PathsRegexAlone ==
    /\ output.fn = "ShouldRunWorkflow"
    /\ OnlyPathsRegex
    /\ Compiles(Entry.PathsRegex)
    => output.ret =
          (\/ OwnFileChanged
           \/ \E k \in DOMAIN input.files : PathMatches(Entry.PathsRegex, input.files[k]))

\* No file matches the pattern, none is the workflow's own, and one is
\* neither a workflow file nor ignored: the workflow does not run.
C9_Witness ==
    /\ output.fn = "ShouldRunWorkflow"
    /\ OnlyPathsRegex
    /\ Compiles(Entry.PathsRegex)
    /\ ~OwnFileChanged
    /\ \E k \in DOMAIN input.files : ~HasPrefix(input.files[k], WorkflowsDir)
    /\ output.ret = FALSE

\* The workflow has an entry with one pattern defined, which does not
\* compile.
BrokenPattern ==
    /\ HasEntry
    /\ ~BothPatterns
    /\ \/ Entry.PathsRegex # << >> /\ ~Compiles(Entry.PathsRegex)
       \/ Entry.PathsIgnoreRegex # << >> /\ ~Compiles(Entry.PathsIgnoreRegex)

Init ==
    /\ HandlerIdle
    /\ input = << >>
    /\ output = NoOutput

\* Handle returns.
Return(err) ==
    /\ pc' = "done"
    /\ result' = err

RECURSIVE CallsFor(_, _, _)
\* One call of an API for each of the keys asked, in order.
CallsFor(api, key, asked) ==
    IF asked = << >> THEN << >>
    ELSE << [api |-> api, key |-> key, value |-> Head(asked)] >>
            \o CallsFor(api, key, Tail(asked))

\* ParseEvent without the test of the action of the event.
ParseEvent_AnyAction ==
    /\ pc = "idle"
    /\ \E e \in Events :
        /\ event' = e
        /\ IF ~e.valid
           THEN Return("failed to parse issue_comment event payload")
           ELSE IF ~e.isPullRequest THEN Return("nil")
           ELSE pc' = "NewInstallationClient" /\ result' = result
    /\ UNCHANGED << calls, botUser, pr, contextRef, SHA, arianeConfig, activeMember,
                    submatch, workflowsToTrigger, workflowDispatchEvent, files, loopIndex,
                    input, output >>

\* ParseEvent that returns nil for a payload it cannot parse.
ParseEvent_NilOnMalformed ==
    /\ pc = "idle"
    /\ \E e \in Events :
        /\ event' = e
        /\ IF ~e.valid THEN Return("nil")
           ELSE IF ~e.isPullRequest THEN Return("nil")
           ELSE IF e.action # "created" THEN Return("nil")
           ELSE pc' = "NewInstallationClient" /\ result' = result
    /\ UNCHANGED << calls, botUser, pr, contextRef, SHA, arianeConfig, activeMember,
                    submatch, workflowsToTrigger, workflowDispatchEvent, files, loopIndex,
                    input, output >>

\* Handle, from its call to the first request: the payload is parsed, and
\* only a created comment on a pull request is handled.
ParseEvent ==
    /\ pc = "idle"
    /\ \E e \in Events :
        /\ event' = e
        /\ IF ~e.valid
           THEN Return("failed to parse issue_comment event payload")
           ELSE IF ~e.isPullRequest THEN Return("nil")
           ELSE IF e.action # "created" THEN Return("nil")
           ELSE pc' = "NewInstallationClient" /\ result' = result
    /\ UNCHANGED << calls, botUser, pr, contextRef, SHA, arianeConfig, activeMember,
                    submatch, workflowsToTrigger, workflowDispatchEvent, files, loopIndex,
                    input, output >>

\* NewInstallationClient that takes every bot for the owner's.
NewInstallationClient_AnyBot ==
    /\ pc = "NewInstallationClient"
    /\ \E err \in BOOLEAN :
        /\ calls' = Append(calls, [api |-> "NewInstallationClient"])
        /\ IF err
           THEN Return("NewInstallationClient failed") /\ botUser' = botUser
           ELSE IF HasSuffix(event.author, << "[", "b", "o", "t", "]" >>)
           THEN pc' = "getPullRequest" /\ result' = result /\ botUser' = TRUE
           ELSE pc' = "getPullRequest" /\ result' = result /\ botUser' = botUser
    /\ UNCHANGED << event, pr, contextRef, SHA, arianeConfig, activeMember,
                    submatch, workflowsToTrigger, workflowDispatchEvent, files, loopIndex,
                    input, output >>

\* The installation client is made, and the comments of bots other than
\* the owner's are dropped.
NewInstallationClient ==
    /\ pc = "NewInstallationClient"
    /\ \E err \in BOOLEAN :
        /\ calls' = Append(calls, [api |-> "NewInstallationClient"])
        /\ IF err
           THEN Return("NewInstallationClient failed") /\ botUser' = botUser
           ELSE IF HasSuffix(event.author, << "[", "b", "o", "t", "]" >>)
           THEN IF ~HasPrefix(event.author, event.owner)
                THEN Return("nil") /\ botUser' = botUser
                ELSE pc' = "getPullRequest" /\ result' = result /\ botUser' = TRUE
           ELSE pc' = "getPullRequest" /\ result' = result /\ botUser' = botUser
    /\ UNCHANGED << event, pr, contextRef, SHA, arianeConfig, activeMember,
                    submatch, workflowsToTrigger, workflowDispatchEvent, files, loopIndex,
                    input, output >>

\* The pull request is looked for among the open ones, and the ref of the
\* configuration and of the runs is chosen.
GetPullRequest ==
    /\ pc = "getPullRequest"
    /\ \E listing \in PullRequestListings :
        LET r == getPullRequest(listing, event.number)
        IN  /\ calls' = calls \o CallsFor("PullRequests.List", "page", r.fetched)
            /\ IF r.err # "nil"
               THEN Return(r.err) /\ UNCHANGED << pr, contextRef, SHA >>
               ELSE LET c == determineContextRef(r.pr, event.owner, event.repo)
                    IN  /\ pr' = r.pr
                        /\ contextRef' = c.contextRef
                        /\ SHA' = c.SHA
                        /\ pc' = "GetArianeConfigFromRepository"
                        /\ result' = result
    /\ UNCHANGED << event, botUser, arianeConfig, activeMember,
                    submatch, workflowsToTrigger, workflowDispatchEvent, files, loopIndex,
                    input, output >>

\* The ways GetArianeConfigFromRepository fails.
ConfigErrors ==
    { "failed downloading config file from repository",
      "failed reading config file",
      "failed parsing configuration file" }

\* The request for .github/ariane-config.yaml at the context ref, with the
\* error GetArianeConfigFromRepository returns for what comes back.
GetContents(err) ==
    [api |-> "Repositories.GetContents", key |-> "ref", value |-> contextRef, err |-> err]

\* GetArianeConfigFromRepository with an empty configuration for one that
\* cannot be loaded.
GetArianeConfigFromRepository_DefaultOnError ==
    /\ pc = "GetArianeConfigFromRepository"
    /\ \/ \E err \in ConfigErrors :
            /\ calls' = Append(calls, GetContents(err))
            /\ arianeConfig' = Unmarshal([triggers |-> << >>, workflows |-> << >>,
                                          allowedTeams |-> << >>])
            /\ pc' = "isAllowedTeamMember"
            /\ result' = result
       \/ \E doc \in ConfigDocs :
            /\ calls' = Append(calls, GetContents("nil"))
            /\ arianeConfig' = Unmarshal(doc)
            /\ pc' = "isAllowedTeamMember"
            /\ result' = result
    /\ UNCHANGED << event, botUser, pr, contextRef, SHA, activeMember,
                    submatch, workflowsToTrigger, workflowDispatchEvent, files, loopIndex,
                    input, output >>

\* The configuration is read at the chosen ref.
GetArianeConfigFromRepository ==
    /\ pc = "GetArianeConfigFromRepository"
    /\ \/ \E err \in ConfigErrors :
            /\ calls' = Append(calls, GetContents(err))
            /\ Return(err)
            /\ arianeConfig' = arianeConfig
       \/ \E doc \in ConfigDocs :
            /\ calls' = Append(calls, GetContents("nil"))
            /\ arianeConfig' = Unmarshal(doc)
            /\ pc' = "isAllowedTeamMember"
            /\ result' = result
    /\ UNCHANGED << event, botUser, pr, contextRef, SHA, activeMember,
                    submatch, workflowsToTrigger, workflowDispatchEvent, files, loopIndex,
                    input, output >>

\* Whether GitHub has the author as an active member of one of the teams.
ActiveMemberOfSome(answers) == \E k \in DOMAIN answers : answers[k].member = "active"

\* A person's comment is handled only if isAllowedTeamMember says so; the
\* owner's bot is not looked up.
IsAllowedTeamMember ==
    /\ pc = "isAllowedTeamMember"
    /\ IF botUser
       THEN /\ pc' = "CheckForTrigger"
            /\ UNCHANGED << result, calls, activeMember >>
       ELSE \E answers \in [1..Len(arianeConfig.AllowedTeams) -> MembershipAnswers] :
                LET r == isAllowedTeamMember(arianeConfig, answers)
                IN  /\ calls' = calls \o CallsFor("Teams.GetTeamMembershipBySlug", "team", r.asked)
                    /\ activeMember' = ActiveMemberOfSome(answers)
                    /\ IF ~r.allowed
                       THEN Return("nil")
                       ELSE pc' = "CheckForTrigger" /\ result' = result
    /\ UNCHANGED << event, botUser, pr, contextRef, SHA, arianeConfig,
                    submatch, workflowsToTrigger, workflowDispatchEvent, files, loopIndex,
                    input, output >>

\* FindTrigger without the return on a nil submatch.
FindTrigger_NoReturn ==
    /\ pc = "CheckForTrigger"
    /\ \E order \in RangeOrders(DOMAIN arianeConfig.Triggers) :
        LET r == CheckForTrigger(arianeConfig, event.body, order)
        IN  /\ submatch' = r.submatch
            /\ workflowsToTrigger' = r.workflows
            /\ workflowDispatchEvent' =
                   createWorkflowDispatchEvent(event.number, contextRef, SHA, r.submatch)
            /\ pc' = "getPRFiles"
            /\ result' = result
    /\ UNCHANGED << event, calls, botUser, pr, contextRef, SHA, arianeConfig,
                    activeMember, files, loopIndex, input, output >>

\* The comment is matched against the triggers, in the order the map
\* happens to be ranged over, and the dispatch event is made.
FindTrigger ==
    /\ pc = "CheckForTrigger"
    /\ \E order \in RangeOrders(DOMAIN arianeConfig.Triggers) :
        LET r == CheckForTrigger(arianeConfig, event.body, order)
        IN  IF r.submatch = << >>
            THEN /\ Return("nil")
                 /\ UNCHANGED << submatch, workflowsToTrigger, workflowDispatchEvent >>
            ELSE /\ submatch' = r.submatch
                 /\ workflowsToTrigger' = r.workflows
                 /\ workflowDispatchEvent' =
                        createWorkflowDispatchEvent(event.number, contextRef, SHA, r.submatch)
                 /\ pc' = "getPRFiles"
                 /\ result' = result
    /\ UNCHANGED << event, calls, botUser, pr, contextRef, SHA, arianeConfig,
                    activeMember, files, loopIndex, input, output >>

\* The changed files of the pull request are listed.
GetPRFiles ==
    /\ pc = "getPRFiles"
    /\ \E listing \in ChangedFileListings :
        LET r == getPRFiles(listing)
        IN  /\ calls' = calls \o CallsFor("PullRequests.ListFiles", "page", r.fetched)
            /\ IF r.err # "nil"
               THEN Return(r.err) /\ UNCHANGED << files, loopIndex >>
               ELSE /\ files' = r.files
                    /\ loopIndex' = 1
                    /\ pc' = "loop"
                    /\ result' = result
    /\ UNCHANGED << event, botUser, pr, contextRef, SHA, arianeConfig, activeMember,
                    submatch, workflowsToTrigger, workflowDispatchEvent, input, output >>

\* The loop of Handle stands at a workflow.
AtWorkflow == pc = "loop" /\ loopIndex <= Len(workflowsToTrigger)

\* The call shouldSkipWorkflow makes for the workflow the loop stands at.
ListWorkflowRuns(answer) ==
    [api |-> "Actions.ListWorkflowRunsByFileName",
     workflow |-> workflowsToTrigger[loopIndex], sha |-> SHA, answer |-> answer]

\* The name GitHub has for a workflow file.
WorkflowName(workflow) == << "n", ":" >> \o workflow

\* An iteration of the loop that shouldSkipWorkflow ends.
SkipWorkflow ==
    /\ AtWorkflow
    /\ \E runs \in RunsAnswers :
        /\ WorkflowDecision(arianeConfig, workflowsToTrigger[loopIndex], files, runs) = "continue"
        /\ calls' = Append(calls, ListWorkflowRuns(runs))
    /\ loopIndex' = loopIndex + 1
    /\ UNCHANGED << pc, event, result, botUser, pr, contextRef, SHA, arianeConfig,
                    activeMember, submatch, workflowsToTrigger, workflowDispatchEvent,
                    files, input, output >>

\* TriggerWorkflow that goes on to the next workflow when the dispatch fails.
TriggerWorkflow_GoOnAfterError ==
    /\ AtWorkflow
    /\ \E runs \in RunsAnswers, err \in BOOLEAN :
        /\ WorkflowDecision(arianeConfig, workflowsToTrigger[loopIndex], files, runs)
             = "triggerWorkflow"
        /\ calls' = calls \o
             << ListWorkflowRuns(runs),
                [api |-> "Actions.CreateWorkflowDispatchEventByFileName",
                 workflow |-> workflowsToTrigger[loopIndex],
                 event |-> workflowDispatchEvent, err |-> err] >>
        /\ loopIndex' = loopIndex + 1
    /\ UNCHANGED << pc, result, event, botUser, pr, contextRef, SHA, arianeConfig,
                    activeMember, submatch, workflowsToTrigger, workflowDispatchEvent,
                    files, input, output >>

\* TriggerWorkflow that reports the workflow it dispatched as skipped too.
TriggerWorkflow_AndCheckRun ==
    /\ AtWorkflow
    /\ \E runs \in RunsAnswers, err \in BOOLEAN :
        /\ WorkflowDecision(arianeConfig, workflowsToTrigger[loopIndex], files, runs)
             = "triggerWorkflow"
        /\ calls' = calls \o
             << ListWorkflowRuns(runs),
                [api |-> "Actions.CreateWorkflowDispatchEventByFileName",
                 workflow |-> workflowsToTrigger[loopIndex],
                 event |-> workflowDispatchEvent, err |-> err],
                [api |-> "Checks.CreateCheckRun",
                 workflow |-> workflowsToTrigger[loopIndex],
                 Name |-> WorkflowName(workflowsToTrigger[loopIndex]), HeadSHA |-> SHA,
                 Status |-> "completed", Conclusion |-> "skipped", err |-> FALSE] >>
        /\ IF err
           THEN Return("CreateWorkflowDispatchEventByFileName failed")
                /\ loopIndex' = loopIndex
           ELSE loopIndex' = loopIndex + 1 /\ UNCHANGED << pc, result >>
    /\ UNCHANGED << event, botUser, pr, contextRef, SHA, arianeConfig,
                    activeMember, submatch, workflowsToTrigger, workflowDispatchEvent,
                    files, input, output >>

\* An iteration of the loop that dispatches the workflow.
TriggerWorkflow ==
    /\ AtWorkflow
    /\ \E runs \in RunsAnswers, err \in BOOLEAN :
        /\ WorkflowDecision(arianeConfig, workflowsToTrigger[loopIndex], files, runs)
             = "triggerWorkflow"
        /\ calls' = calls \o
             << ListWorkflowRuns(runs),
                [api |-> "Actions.CreateWorkflowDispatchEventByFileName",
                 workflow |-> workflowsToTrigger[loopIndex],
                 event |-> workflowDispatchEvent, err |-> err] >>
        /\ IF err
           THEN Return("CreateWorkflowDispatchEventByFileName failed")
                /\ loopIndex' = loopIndex
           ELSE loopIndex' = loopIndex + 1 /\ UNCHANGED << pc, result >>
    /\ UNCHANGED << event, botUser, pr, contextRef, SHA, arianeConfig,
                    activeMember, submatch, workflowsToTrigger, workflowDispatchEvent,
                    files, input, output >>

\* MarkWorkflowAsSkipped that creates the check run of a workflow it could
\* not look up, and goes on.
MarkWorkflowAsSkipped_PastLookupError ==
    /\ AtWorkflow
    /\ \E runs \in RunsAnswers, getErr \in BOOLEAN, err \in BOOLEAN :
        LET workflow == workflowsToTrigger[loopIndex]
            getWorkflow == [api |-> "Actions.GetWorkflowByFileName",
                            key |-> "workflow", value |-> workflow, err |-> getErr]
            checkRun == [api |-> "Checks.CreateCheckRun", workflow |-> workflow,
                         Name |-> WorkflowName(workflow), HeadSHA |-> SHA,
                         Status |-> "completed", Conclusion |-> "skipped", err |-> err]
        IN  /\ WorkflowDecision(arianeConfig, workflow, files, runs) = "markWorkflowAsSkipped"
            /\ calls' = calls \o << ListWorkflowRuns(runs), getWorkflow, checkRun >>
            /\ IF err
               THEN Return("CreateCheckRun failed") /\ loopIndex' = loopIndex
               ELSE loopIndex' = loopIndex + 1 /\ UNCHANGED << pc, result >>
    /\ UNCHANGED << event, botUser, pr, contextRef, SHA, arianeConfig,
                    activeMember, submatch, workflowsToTrigger, workflowDispatchEvent,
                    files, input, output >>

\* An iteration of the loop that reports the workflow as skipped.
MarkWorkflowAsSkipped ==
    /\ AtWorkflow
    /\ \E runs \in RunsAnswers, getErr \in BOOLEAN, err \in BOOLEAN :
        LET workflow == workflowsToTrigger[loopIndex]
            getWorkflow == [api |-> "Actions.GetWorkflowByFileName",
                            key |-> "workflow", value |-> workflow, err |-> getErr]
            checkRun == [api |-> "Checks.CreateCheckRun", workflow |-> workflow,
                         Name |-> WorkflowName(workflow), HeadSHA |-> SHA,
                         Status |-> "completed", Conclusion |-> "skipped", err |-> err]
        IN  /\ WorkflowDecision(arianeConfig, workflow, files, runs) = "markWorkflowAsSkipped"
            /\ IF getErr
               THEN /\ ~err
                    /\ calls' = calls \o << ListWorkflowRuns(runs), getWorkflow >>
                    /\ Return("GetWorkflowByFileName failed")
                    /\ loopIndex' = loopIndex
               ELSE /\ calls' = calls \o << ListWorkflowRuns(runs), getWorkflow, checkRun >>
                    /\ IF err
                       THEN Return("CreateCheckRun failed") /\ loopIndex' = loopIndex
                       ELSE loopIndex' = loopIndex + 1 /\ UNCHANGED << pc, result >>
    /\ UNCHANGED << event, botUser, pr, contextRef, SHA, arianeConfig,
                    activeMember, submatch, workflowsToTrigger, workflowDispatchEvent,
                    files, input, output >>

\* ReactToComment that leaves the comment alone when Handle neither
\* dispatched a workflow nor reported one as skipped.
ReactToComment_OnlyAfterEffects ==
    /\ pc = "loop"
    /\ loopIndex > Len(workflowsToTrigger)
    /\ \E err \in BOOLEAN :
        IF \E k \in DOMAIN calls :
               calls[k].api \in {"Actions.CreateWorkflowDispatchEventByFileName",
                                 "Checks.CreateCheckRun"}
        THEN /\ calls' = Append(calls, [api |-> "Reactions.CreateIssueCommentReaction",
                                        commentID |-> event.commentID,
                                        content |-> "rocket", err |-> err])
             /\ Return(IF err THEN "CreateIssueCommentReaction failed" ELSE "nil")
        ELSE /\ ~err
             /\ calls' = calls
             /\ Return("nil")
    /\ UNCHANGED << event, botUser, pr, contextRef, SHA, arianeConfig,
                    activeMember, submatch, workflowsToTrigger, workflowDispatchEvent,
                    files, loopIndex, input, output >>

\* After the loop the comment gets its rocket, and Handle returns.
ReactToComment ==
    /\ pc = "loop"
    /\ loopIndex > Len(workflowsToTrigger)
    /\ \E err \in BOOLEAN :
        /\ calls' = Append(calls, [api |-> "Reactions.CreateIssueCommentReaction",
                                   commentID |-> event.commentID,
                                   content |-> "rocket", err |-> err])
        /\ Return(IF err THEN "CreateIssueCommentReaction failed" ELSE "nil")
    /\ UNCHANGED << event, botUser, pr, contextRef, SHA, arianeConfig,
                    activeMember, submatch, workflowsToTrigger, workflowDispatchEvent,
                    files, loopIndex, input, output >>

Next ==
    \/ ParseEvent
    \/ NewInstallationClient
    \/ GetPullRequest
    \/ GetArianeConfigFromRepository
    \/ IsAllowedTeamMember
    \/ FindTrigger
    \/ GetPRFiles
    \/ SkipWorkflow
    \/ TriggerWorkflow
    \/ MarkWorkflowAsSkipped
    \/ ReactToComment

Spec == Init /\ [][Next]_vars

\* Handle has read a configuration.
ConfigRead == "AllowedTeams" \in DOMAIN arianeConfig

\* The author of the comment is the owner's bot.
FirstPartyBot ==
    /\ event.valid
    /\ HasSuffix(event.author, << "[", "b", "o", "t", "]" >>)
    /\ HasPrefix(event.author, event.owner)

\* The three grounds on which an author's comment is acted upon.
Authorized ==
    \/ FirstPartyBot
    \/ ConfigRead /\ arianeConfig.AllowedTeams = << >>
    \/ ConfigRead /\ activeMember

\* The calls of the API made so far.
Made(api) == \E k \in DOMAIN calls : calls[k].api = api

Dispatched == Made("Actions.CreateWorkflowDispatchEventByFileName")

CheckRunCreated == Made("Checks.CreateCheckRun")

Reacted == Made("Reactions.CreateIssueCommentReaction")

\* C1: a workflow dispatch, a check-run creation or a reaction is issued
\* only if the author is the owner's bot, or allowed-teams of the
\* configuration read is empty, or the author is an active member of one of
\* its teams; when none of the three holds, Handle returns nil and has
\* issued none of these calls.
C1_OnlyAuthorizedAuthors ==
    /\ (Dispatched \/ CheckRunCreated \/ Reacted) => Authorized
    /\ (pc = "done" /\ ConfigRead /\ ~Authorized) =>
            /\ result = "nil"
            /\ ~Dispatched /\ ~CheckRunCreated /\ ~Reacted

\* A person who is in neither of two listed teams was turned away, both
\* teams looked up.
C1_Witness ==
    /\ pc = "done"
    /\ ConfigRead
    /\ ~Authorized
    /\ Len(arianeConfig.AllowedTeams) = 2
    /\ Len(SelectSeq(calls, LAMBDA c : c.api = "Teams.GetTeamMembershipBySlug")) = 2
    /\ result = "nil"

\* No pattern of the configuration read matches the body of the comment.
NoTriggerMatches ==
    \A p \in DOMAIN arianeConfig.Triggers : TriggerSubmatch(p, event.body) = << >>

\* C5: when no pattern of the configuration matches the body of the comment,
\* Handle lists no changed files and no workflow runs, dispatches nothing,
\* creates no check run and leaves no reaction, and it returns nil.
C5_NoMatchIsIgnored ==
    (ConfigRead /\ NoTriggerMatches) =>
        /\ ~Made("PullRequests.ListFiles")
        /\ ~Made("Actions.ListWorkflowRunsByFileName")
        /\ ~Dispatched /\ ~CheckRunCreated /\ ~Reacted
        /\ pc = "done" => result = "nil"

\* An authorized comment that matches none of the patterns was ignored.
C5_Witness ==
    /\ pc = "done"
    /\ ConfigRead
    /\ arianeConfig.AllowedTeams = << >>
    /\ DOMAIN arianeConfig.Triggers # {}
    /\ NoTriggerMatches
    /\ result = "nil"

(***************************************************************************)
(* The selection of workflows, evaluated twice on the same configuration,  *)
(* comment, changed files and last runs.                                   *)
(***************************************************************************)

\* The elements of a sequence.
Range(seq) == {seq[k] : k \in DOMAIN seq}

\* What Handle does about the workflows, from CheckForTrigger to the end of
\* its loop, when the calls it makes succeed: the workflows it dispatches,
\* those it reports as skipped, and those whose last run it keeps.
\* lastRuns[w]: what ListWorkflowRunsByFileName answers for w.
Selection(config, comment, changed, lastRuns, order) ==
    LET r == CheckForTrigger(config, comment, order)
        Decided(d) == {w \in Range(r.workflows) :
                          WorkflowDecision(config, w, changed, lastRuns[w]) = d}
    IN  [matched |-> r.submatch # << >>,
         dispatched |-> Decided("triggerWorkflow"),
         skipped |-> Decided("markWorkflowAsSkipped"),
         reused |-> Decided("continue")]

\* The workflows each pattern triggers in the configurations drawn.
TriggerWorkflows(p) ==
    CASE p = << "/", "c" >> -> << FooYaml >>
      [] p = << "/", "c", " ", "(", ".", "+", ")" >> -> << FooYaml, BarYaml >>
      [] p = << "/", "t" >> -> << BarYaml >>
      [] p = << "/", "c", "|", "/", "t" >> -> << BarYaml, FooYaml >>
      [] OTHER -> << BarYaml >>

\* The triggers mappings: distinct patterns, in document order.
SelectionTriggerDocs ==
    {[k \in DOMAIN t |-> [regex |-> t[k], workflows |-> TriggerWorkflows(t[k])]] :
        t \in {u \in SeqsUpTo(TriggerPatterns, MaxTriggers) :
                  \A a, b \in DOMAIN u : a # b => u[a] # u[b]}}

\* The last runs: none that ended well, or one that did.
LastRuns ==
    { [err |-> FALSE, nil |-> FALSE,
       WorkflowRuns |-> << [Status |-> "completed", Conclusion |-> "failure"] >>],
      [err |-> FALSE, nil |-> FALSE,
       WorkflowRuns |-> << [Status |-> "completed", Conclusion |-> "success"] >>] }

InitSelection ==
    /\ HandlerIdle
    /\ input \in [doc : [triggers : SelectionTriggerDocs, workflows : EventWorkflowMaps,
                         allowedTeams : {<< >>}],
                  comment : Comments,
                  files : ChangedFilePages,
                  lastRuns : [WorkflowNames -> LastRuns]]
    /\ output = NoOutput

\* Two evaluations; each ranges over the triggers map in an order of its own.
EvaluateTwice ==
    /\ output = NoOutput
    /\ LET config == Unmarshal(input.doc)
       IN  \E first, second \in RangeOrders(DOMAIN config.Triggers) :
               output' =
                   [fn |-> "Selection",
                    orders |-> << first, second >>,
                    first |-> Selection(config, input.comment, input.files,
                                        input.lastRuns, first),
                    second |-> Selection(config, input.comment, input.files,
                                         input.lastRuns, second)]
    /\ UNCHANGED << input, hvars >>

NextSelection == EvaluateTwice

SpecSelection == InitSelection /\ [][NextSelection]_vars

\* The two evaluations dispatch, skip and reuse the same workflows.
SameSelection ==
    /\ output.first.dispatched = output.second.dispatched
    /\ output.first.skipped = output.second.skipped
    /\ output.first.reused = output.second.reused

\* C4, as claimed: two evaluations of the same comment with the same
\* configuration, changed files and last runs dispatch the same workflows,
\* mark the same workflows as skipped and reuse the same runs.
C4_Deterministic == output.fn = "Selection" => SameSelection

\* C4, amended: two evaluations of the same comment with the same
\* configuration, changed files and last runs select the same workflows
\* whenever at most one pattern of the configuration matches the comment.
C4_DeterministicUnlessSeveralMatch ==
    (output.fn = "Selection" /\ Cardinality(MatchingTriggers) <= 1) => SameSelection

\* One pattern of two matches, the two evaluations try the patterns in
\* different orders, and both dispatch a workflow.
C4_Witness ==
    /\ output.fn = "Selection"
    /\ Len(input.doc.triggers) = 2
    /\ Cardinality(MatchingTriggers) = 1
    /\ output.orders[1] # output.orders[2]
    /\ output.first.dispatched # {}
    /\ SameSelection

(***************************************************************************)
(* The policy for a workflow without an entry in workflows.                *)
(***************************************************************************)

\* The name starts with .github/workflows
StartsWithWorkflowsDir(filename) ==
    /\ Len(filename) >= Len(WorkflowsDir)
    /\ SubSeq(filename, 1, Len(WorkflowsDir)) = WorkflowsDir

\* C11: ShouldRunOnlyWorkflows returns true if and only if some changed file
\* does not start with .github/workflows or is .github/workflows/<workflow>;
\* it returns false for an empty list and for a list of files of other
\* workflows only.
C11_OnlyWorkflowsPolicy ==
    output.fn = "ShouldRunOnlyWorkflows" =>
        /\ output.ret =
              (\E k \in DOMAIN input.files :
                  \/ ~StartsWithWorkflowsDir(input.files[k])
                  \/ input.files[k] = WorkflowFile(input.workflow))
        /\ input.files = << >> => output.ret = FALSE
        /\ (\A k \in DOMAIN input.files :
               /\ StartsWithWorkflowsDir(input.files[k])
               /\ input.files[k] # WorkflowFile(input.workflow)) => output.ret = FALSE

\* Another workflow's file first, then the workflow's own: true.
C11_Witness ==
    /\ output.fn = "ShouldRunOnlyWorkflows"
    /\ Len(input.files) = 2
    /\ input.files[1] # WorkflowFile(input.workflow)
    /\ StartsWithWorkflowsDir(input.files[1])
    /\ input.files[2] = WorkflowFile(input.workflow)
    /\ output.ret = TRUE

(***************************************************************************)
(* shouldSkipWorkflow applied to what ListWorkflowRunsByFileName answers.  *)
(***************************************************************************)

\* Most runs in an answer (the request asks for one per page).
MaxRuns == 2

RunStatuses == {"completed", "queued", "in_progress"}

RunConclusions == {"success", "skipped", "failure", "cancelled", ""}

\* The answers: a failure, no error and no runs object, or the runs of the
\* workflow for the SHA, the most recent first.
AllRunsAnswers ==
    { [err |-> TRUE, nil |-> TRUE, WorkflowRuns |-> << >>],
      [err |-> FALSE, nil |-> TRUE, WorkflowRuns |-> << >>] } \cup
    [err : {FALSE}, nil : {FALSE},
     WorkflowRuns : SeqsUpTo([Status : RunStatuses, Conclusion : RunConclusions], MaxRuns)]

InitRuns ==
    /\ HandlerIdle
    /\ input \in [answer : AllRunsAnswers]
    /\ output = NoOutput

CallshouldSkipWorkflow ==
    /\ output = NoOutput
    /\ output' = [fn |-> "shouldSkipWorkflow", ret |-> shouldSkipWorkflow(input.answer)]
    /\ UNCHANGED << input, hvars >>

NextRuns == CallshouldSkipWorkflow

SpecRuns == InitRuns /\ [][NextRuns]_vars

\* The answer holds a most recent run.
HasLastRun == ~input.answer.err /\ Len(input.answer.WorkflowRuns) > 0

LastRun == input.answer.WorkflowRuns[1]

\* C12: shouldSkipWorkflow returns true if and only if there is a most
\* recent run of the workflow for the SHA, its status is completed and its
\* conclusion is success or skipped; it returns false for the conclusion
\* failure, for every status other than completed and when there is no run.
C12_SkipIffLastRunEndedWell ==
    output.fn = "shouldSkipWorkflow" =>
        /\ output.ret =
              (/\ HasLastRun
               /\ LastRun.Status = "completed"
               /\ LastRun.Conclusion \in {"success", "skipped"})
        /\ (HasLastRun /\ LastRun.Conclusion = "failure") => output.ret = FALSE
        /\ (HasLastRun /\ LastRun.Status # "completed") => output.ret = FALSE
        /\ ~HasLastRun => output.ret = FALSE

\* The last run was skipped and the one before it failed: true.
C12_Witness ==
    /\ output.fn = "shouldSkipWorkflow"
    /\ Len(input.answer.WorkflowRuns) = 2
    /\ LastRun = [Status |-> "completed", Conclusion |-> "skipped"]
    /\ input.answer.WorkflowRuns[2].Conclusion = "failure"
    /\ output.ret = TRUE

(***************************************************************************)
(* What Handle does about a workflow, against the last run GitHub has of   *)
(* it for the SHA.                                                         *)
(***************************************************************************)

\* The positions in calls of the dispatches and of the check runs.
DispatchCalls ==
    {k \in DOMAIN calls : calls[k].api = "Actions.CreateWorkflowDispatchEventByFileName"}

CheckRunCalls == {k \in DOMAIN calls : calls[k].api = "Checks.CreateCheckRun"}

\* The listing of runs that came last before the k-th call.
ListingBefore(k) ==
    calls[CHOOSE j \in 1..(k - 1) :
             /\ calls[j].api = "Actions.ListWorkflowRunsByFileName"
             /\ \A h \in (j + 1)..(k - 1) :
                    calls[h].api # "Actions.ListWorkflowRunsByFileName"]

\* The listing answered with a last run.
AnsweredLastRun(listing) == ~listing.answer.err /\ Len(listing.answer.WorkflowRuns) > 0

\* The listing answered with a last run that is completed with this conclusion.
LastRunEnded(listing, conclusions) ==
    /\ AnsweredLastRun(listing)
    /\ listing.answer.WorkflowRuns[1].Status = "completed"
    /\ listing.answer.WorkflowRuns[1].Conclusion \in conclusions

NotHandled == event.valid /\ (~event.isPullRequest \/ event.action # "created")

\* C14: for a comment on an issue that is not a pull request, or an event
\* whose action is not "created", Handle returns nil; it makes no
\* installation client and no call to GitHub at all.
C14_OnlyCreatedPullRequestComments ==
    NotHandled =>
        /\ pc = "done"
        /\ result = "nil"
        /\ calls = << >>

\* An edited comment on a pull request was dropped.
C14_Witness ==
    /\ pc = "done"
    /\ event.valid
    /\ event.isPullRequest
    /\ event.action = "edited"
    /\ result = "nil"
    /\ calls = << >>

(***************************************************************************)
(* Comments of bots.                                                       *)
(***************************************************************************)

\* A created comment on a pull request whose author's login ends in [bot]
\* and does not start with the owner's.
OtherBot ==
    /\ event.valid /\ event.isPullRequest /\ event.action = "created"
    /\ HasSuffix(event.author, << "[", "b", "o", "t", "]" >>)
    /\ ~HasPrefix(event.author, event.owner)

\* Handle has asked GitHub nothing; at most it has made its client.
NothingAsked == \A k \in DOMAIN calls : calls[k].api = "NewInstallationClient"

TeamLookedUp == Made("Teams.GetTeamMembershipBySlug")

\* C15, as claimed: for a bot other than the owner's, Handle returns nil
\* without pull-request lookup, configuration load, dispatch, check run or
\* reaction; the owner's bot is processed without any team lookup.
C15_OtherBotsReturnNil ==
    /\ OtherBot => NothingAsked
    /\ (OtherBot /\ pc = "done") => result = "nil"
    /\ FirstPartyBot => ~TeamLookedUp

\* C15, amended: for a bot other than the owner's, Handle makes no
\* pull-request lookup, configuration load, dispatch, check run or reaction,
\* and returns nil, or the error of NewInstallationClient, which it calls
\* before it looks at the author; the owner's bot is processed without any
\* team lookup.
C15_OtherBotsAreDropped ==
    /\ OtherBot => NothingAsked /\ pc \in {"NewInstallationClient", "done"}
    /\ (OtherBot /\ pc = "done") => result \in {"nil", "NewInstallationClient failed"}
    /\ FirstPartyBot => ~TeamLookedUp

\* The comment of another bot was dropped, the client made.
C15_Witness ==
    /\ OtherBot
    /\ pc = "done"
    /\ result = "nil"
    /\ Len(calls) = 1

(***************************************************************************)
(* The ref and the SHA of the dispatches.                                  *)
(***************************************************************************)

\* Handle has found the pull request.
PullRequestFound == "Head" \in DOMAIN pr

\* The head of the pull request is in another repository than the event's.
FromFork ==
    \/ pr.Head.Repo.Owner # event.owner
    \/ pr.Head.Repo.Name # event.repo

\* C16: the context ref is the base ref of the pull request when the
\* repository of its head differs from the event's in owner or in name, and
\* its head ref otherwise; the SHA is its head SHA in both cases; every
\* dispatch of the event has the context ref as Ref and as context-ref
\* input, and the head SHA as SHA input.
C16_ContextRefAndSHA ==
    PullRequestFound =>
        /\ contextRef = IF FromFork THEN pr.Base.Ref ELSE pr.Head.Ref
        /\ SHA = pr.Head.SHA
        /\ \A k \in DOMAIN calls :
              calls[k].api = "Actions.CreateWorkflowDispatchEventByFileName" =>
                  /\ calls[k].event.Ref = contextRef
                  /\ calls[k].event.Inputs["context-ref"] = contextRef
                  /\ calls[k].event.Inputs["SHA"] = pr.Head.SHA

\* A workflow was dispatched at the base ref for a pull request whose head
\* is in another repository of the same owner.
C16_Witness ==
    /\ PullRequestFound
    /\ pr.Head.Repo.Owner = event.owner
    /\ pr.Head.Repo.Name # event.repo
    /\ \E k \in DOMAIN calls :
          /\ calls[k].api = "Actions.CreateWorkflowDispatchEventByFileName"
          /\ calls[k].event.Ref = "main"

(***************************************************************************)
(* The dispatches of the loop of Handle, entry by entry of the list of the *)
(* trigger.                                                                *)
(***************************************************************************)

\* How many workflows the loop has come to, up to the k-th call: each
\* iteration starts with a listing of runs.
EntriesUpTo(k) ==
    Cardinality({h \in 1..k : calls[h].api = "Actions.ListWorkflowRunsByFileName"})

\* The listing of runs of the j-th entry of the list.
ListingOfEntry(j) ==
    calls[CHOOSE k \in DOMAIN calls :
             /\ calls[k].api = "Actions.ListWorkflowRunsByFileName"
             /\ EntriesUpTo(k) = j]

\* The dispatches made for the j-th entry of the list.
DispatchesOfEntry(j) == {k \in DispatchCalls : EntriesUpTo(k) = j}

\* Path relevance of a workflow: the policy of its entry in workflows if it
\* has one, the policy for workflows without entry otherwise.
Relevant(workflow) ==
    IF workflow \in DOMAIN arianeConfig.Workflows
    THEN ShouldRunWorkflow(arianeConfig, workflow, files)
    ELSE ShouldRunOnlyWorkflows(arianeConfig, workflow, files)

\* C17: for every entry of the list of the matched trigger that Handle comes
\* to, the workflow is dispatched exactly once if its last run does not make
\* it skipped and path relevance says run, and not at all otherwise; the
\* dispatch names the workflow and carries PR-number, context-ref and SHA.
\* Handle comes to every entry unless a call fails.
C17_RelevantWorkflowsDispatchedOnce ==
    /\ \A j \in 1..EntriesUpTo(Len(calls)) :
          /\ ListingOfEntry(j).workflow = workflowsToTrigger[j]
          /\ Cardinality(DispatchesOfEntry(j)) =
                IF /\ ~LastRunEnded(ListingOfEntry(j), {"success", "skipped"})
                   /\ Relevant(workflowsToTrigger[j])
                THEN 1 ELSE 0
          /\ \A k \in DispatchesOfEntry(j) :
                /\ calls[k].workflow = workflowsToTrigger[j]
                /\ {"PR-number", "context-ref", "SHA"} \subseteq DOMAIN calls[k].event.Inputs
                /\ calls[k].event.Inputs["PR-number"] = Itoa(event.number)
                /\ calls[k].event.Inputs["context-ref"] = contextRef
                /\ calls[k].event.Inputs["SHA"] = SHA
    /\ pc = "loop" => EntriesUpTo(Len(calls)) = loopIndex - 1
    /\ (pc = "done" /\ Reacted) => EntriesUpTo(Len(calls)) = Len(workflowsToTrigger)
    /\ DispatchCalls # {} => EntriesUpTo(Len(calls)) > 0

\* b.y, which has no entry in workflows, is listed twice and was dispatched
\* for both, and Handle returned nil.
C17_Witness ==
    /\ pc = "done"
    /\ result = "nil"
    /\ workflowsToTrigger = << BarYaml, BarYaml >>
    /\ Cardinality(DispatchesOfEntry(1)) = 1
    /\ Cardinality(DispatchesOfEntry(2)) = 1

(***************************************************************************)
(* Failures of the calls that change something at GitHub.                  *)
(***************************************************************************)

\* What Handle returns when the call of this API fails.
ErrorOf(api) ==
    CASE api = "Actions.CreateWorkflowDispatchEventByFileName"
            -> "CreateWorkflowDispatchEventByFileName failed"
      [] api = "Checks.CreateCheckRun" -> "CreateCheckRun failed"
      [] api = "Reactions.CreateIssueCommentReaction" -> "CreateIssueCommentReaction failed"

\* The positions in calls of the dispatches, check runs and reactions that
\* failed.
FailedCalls ==
    {k \in DOMAIN calls :
        /\ calls[k].api \in {"Actions.CreateWorkflowDispatchEventByFileName",
                             "Checks.CreateCheckRun",
                             "Reactions.CreateIssueCommentReaction"}
        /\ calls[k].err}

\* C18: the first dispatch, creation of a skipped check run or reaction that
\* fails is the last call Handle makes, and Handle returns its error: no
\* later workflow of the list is examined, dispatched or marked, and no
\* reaction follows a failure in the loop.
C18_FirstFailureAborts ==
    \A k \in FailedCalls :
        /\ k = Len(calls)
        /\ pc = "done"
        /\ result = ErrorOf(calls[k].api)
        /\ calls[k].api # "Reactions.CreateIssueCommentReaction" => ~Reacted

\* The dispatch of the first of two workflows failed: the second was not
\* looked at.
C18_Witness ==
    /\ pc = "done"
    /\ Len(workflowsToTrigger) = 2
    /\ FailedCalls # {}
    /\ EntriesUpTo(Len(calls)) = 1
    /\ calls[Len(calls)].api = "Actions.CreateWorkflowDispatchEventByFileName"
    /\ result = "CreateWorkflowDispatchEventByFileName failed"

(***************************************************************************)
(* MergeGroupHandler.Handle, one delivery of a merge_group event, applied  *)
(* to the event and to what GitHub answers to each of its calls.           *)
(***************************************************************************)

\* Most required status checks of a branch.
MaxChecks == 3

\* The app id of a required check that any source may report.
AnySource == 0

\* The app id of a required check that an app reports.
SomeApp == 15368

\* The required status checks of branches.
RequiredStatusChecks == SeqsUpTo([Context : {"ci", "lint"}, AppID : {AnySource, SomeApp}], MaxChecks)

\* The answers of Repositories.GetBranchProtection.
BranchProtections ==
    {[err |-> TRUE, checks |-> << >>]} \cup [err : {FALSE}, checks : RequiredStatusChecks]

\* The merge_group payloads: one that json.Unmarshal rejects, and events.
MergeGroupEvents ==
    {MalformedPayload} \cup
    [valid : {TRUE}, action : {"checks_requested", "destroyed"},
     baseRef : {"refs/heads/main"}, headSHA : {"mergesha"}]

\* The loop of MergeGroupHandler.Handle over the required checks without
\* the test of the app id.
RECURSIVE RequiredChecksFrom_AnyApp(_, _, _, _, _)
RequiredChecksFrom_AnyApp(checks, headSHA, createErr, k, made) ==
    IF k > Len(checks) THEN made
    ELSE RequiredChecksFrom_AnyApp(checks, headSHA, createErr, k + 1,
            Append(made, [api |-> "Checks.CreateCheckRun", Name |-> checks[k].Context,
                          HeadSHA |-> headSHA, Status |-> "completed",
                          Conclusion |-> "success", err |-> createErr[k]]))

\* The loop that stops at the first check run that cannot be created.
RECURSIVE RequiredChecksFrom_StopAtError(_, _, _, _, _)
RequiredChecksFrom_StopAtError(checks, headSHA, createErr, k, made) ==
    IF k > Len(checks) THEN made
    ELSE IF checks[k].AppID # 0
    THEN RequiredChecksFrom_StopAtError(checks, headSHA, createErr, k + 1, made)
    ELSE IF createErr[k]
    THEN Append(made, [api |-> "Checks.CreateCheckRun", Name |-> checks[k].Context,
                       HeadSHA |-> headSHA, Status |-> "completed",
                       Conclusion |-> "success", err |-> createErr[k]])
    ELSE RequiredChecksFrom_StopAtError(checks, headSHA, createErr, k + 1,
            Append(made, [api |-> "Checks.CreateCheckRun", Name |-> checks[k].Context,
                          HeadSHA |-> headSHA, Status |-> "completed",
                          Conclusion |-> "success", err |-> createErr[k]]))

RECURSIVE RequiredChecksFrom(_, _, _, _, _)
\* The loop of MergeGroupHandler.Handle over the required checks, from the
\* k-th; createErr[k]: whether the check run of the k-th cannot be created.
\* made: the calls made so far.
RequiredChecksFrom(checks, headSHA, createErr, k, made) ==
    IF k > Len(checks) THEN made
    ELSE IF checks[k].AppID # 0
    THEN RequiredChecksFrom(checks, headSHA, createErr, k + 1, made)
    ELSE RequiredChecksFrom(checks, headSHA, createErr, k + 1,
            Append(made, [api |-> "Checks.CreateCheckRun", Name |-> checks[k].Context,
                          HeadSHA |-> headSHA, Status |-> "completed",
                          Conclusion |-> "success", err |-> createErr[k]]))

\* MergeGroupHandle that takes a branch protection it could not fetch as
\* one without required checks.
MergeGroupHandle_PastProtectionError(mergeGroupEvent, clientErr, branchPro, createErr) ==
    IF ~mergeGroupEvent.valid
    THEN [ret |-> "failed to parse merge_group event payload", calls |-> << >>]
    ELSE IF mergeGroupEvent.action # "checks_requested"
    THEN [ret |-> "nil", calls |-> << >>]
    ELSE LET client == << [api |-> "NewInstallationClient"] >>
             protection == [api |-> "Repositories.GetBranchProtection",
                            key |-> "branch", value |-> mergeGroupEvent.baseRef]
         IN  IF clientErr
             THEN [ret |-> "NewInstallationClient failed", calls |-> client]
             ELSE [ret |-> "nil",
                   calls |-> RequiredChecksFrom(branchPro.checks, mergeGroupEvent.headSHA,
                                                createErr, 1, Append(client, protection))]

\* MergeGroupHandler.Handle: what it returns and the calls it makes.
MergeGroupHandle(mergeGroupEvent, clientErr, branchPro, createErr) ==
    IF ~mergeGroupEvent.valid
    THEN [ret |-> "failed to parse merge_group event payload", calls |-> << >>]
    ELSE IF mergeGroupEvent.action # "checks_requested"
    THEN [ret |-> "nil", calls |-> << >>]
    ELSE LET client == << [api |-> "NewInstallationClient"] >>
             protection == [api |-> "Repositories.GetBranchProtection",
                            key |-> "branch", value |-> mergeGroupEvent.baseRef]
         IN  IF clientErr
             THEN [ret |-> "NewInstallationClient failed", calls |-> client]
             ELSE IF branchPro.err
             THEN [ret |-> "GetBranchProtection failed",
                   calls |-> Append(client, protection)]
             ELSE [ret |-> "nil",
                   calls |-> RequiredChecksFrom(branchPro.checks, mergeGroupEvent.headSHA,
                                                createErr, 1, Append(client, protection))]

InitMergeGroup ==
    /\ HandlerIdle
    /\ input \in {r \in [event : MergeGroupEvents, clientErr : BOOLEAN,
                         branchPro : BranchProtections,
                         createErr : SeqsUpTo(BOOLEAN, MaxChecks)] :
                     Len(r.createErr) = Len(r.branchPro.checks)}
    /\ output = NoOutput

CallMergeGroupHandle ==
    /\ output = NoOutput
    /\ LET r == MergeGroupHandle(input.event, input.clientErr, input.branchPro,
                                 input.createErr)
       IN  output' = [fn |-> "MergeGroupHandler.Handle", ret |-> r.ret, calls |-> r.calls]
    /\ UNCHANGED << input, hvars >>

NextMergeGroup == CallMergeGroupHandle

SpecMergeGroup == InitMergeGroup /\ [][NextMergeGroup]_vars

\* Handle got the required checks of the base ref.
ChecksRequested ==
    /\ output.fn = "MergeGroupHandler.Handle"
    /\ input.event.valid
    /\ input.event.action = "checks_requested"
    /\ ~input.clientErr
    /\ ~input.branchPro.err

\* The required checks that any source may report, in order, with their
\* positions among the required checks.
AnySourceChecks ==
    SelectSeq([k \in DOMAIN input.branchPro.checks |->
                  [position |-> k, Context |-> input.branchPro.checks[k].Context,
                   AppID |-> input.branchPro.checks[k].AppID]],
              LAMBDA c : c.AppID = AnySource)

\* The check runs Handle asked GitHub to create, in order.
CheckRunsAsked == SelectSeq(output.calls, LAMBDA c : c.api = "Checks.CreateCheckRun")

\* C19: on a merge_group event with action checks_requested, Handle creates
\* one check run, completed with success at the head SHA of the merge group
\* and named after the context, for every required check of the base ref
\* whose app id is 0, and none for a required check with another app id; it
\* dispatches no workflow.
C19_SuccessForAnySourceChecks ==
    /\ ChecksRequested =>
          /\ Len(CheckRunsAsked) = Len(AnySourceChecks)
          /\ \A j \in DOMAIN CheckRunsAsked :
                /\ CheckRunsAsked[j].Name = AnySourceChecks[j].Context
                /\ CheckRunsAsked[j].HeadSHA = input.event.headSHA
                /\ CheckRunsAsked[j].Status = "completed"
                /\ CheckRunsAsked[j].Conclusion = "success"
    /\ output.fn = "MergeGroupHandler.Handle" =>
          \A k \in DOMAIN output.calls :
              output.calls[k].api # "Actions.CreateWorkflowDispatchEventByFileName"

\* Of three required checks the second is an app's: two check runs.
C19_Witness ==
    /\ ChecksRequested
    /\ Len(input.branchPro.checks) = 3
    /\ input.branchPro.checks[1].AppID = AnySource
    /\ input.branchPro.checks[2].AppID # AnySource
    /\ input.branchPro.checks[3].AppID = AnySource
    /\ Len(CheckRunsAsked) = 2

\* C20: a check run that cannot be created does not end the processing of
\* a merge_group event: the check run of every required check with app id 0
\* is asked for, those after a failure included, and Handle returns nil
\* whether some, all or none of the creations failed.
C20_FailuresDoNotAbort ==
    ChecksRequested =>
        /\ output.ret = "nil"
        /\ \A j \in DOMAIN AnySourceChecks :
              /\ j \in DOMAIN CheckRunsAsked
              /\ CheckRunsAsked[j].err = input.createErr[AnySourceChecks[j].position]

\* The first check run could not be created; the second was asked for and
\* created.
C20_Witness ==
    /\ ChecksRequested
    /\ Len(AnySourceChecks) >= 2
    /\ Len(CheckRunsAsked) >= 2
    /\ CheckRunsAsked[1].err
    /\ ~CheckRunsAsked[2].err
    /\ output.ret = "nil"

(***************************************************************************)
(* One delivery to the event dispatcher: an issue_comment event goes to    *)
(* PRCommentHandler.Handle, a merge_group event to MergeGroupHandler.Handle.*)
(***************************************************************************)

InitDelivery == Init \/ InitMergeGroup

\* The delivery is an issue_comment event.
IssueCommentDelivery == DOMAIN input = {}

NextDelivery ==
    \/ IssueCommentDelivery /\ Next
    \/ ~IssueCommentDelivery /\ NextMergeGroup

SpecDelivery == InitDelivery /\ [][NextDelivery]_vars

\* C21: a payload that cannot be parsed makes Handle, of the comment handler
\* and of the merge-group handler alike, return the parse error, never nil;
\* no client is made and GitHub is asked nothing.
C21_MalformedPayloadFails ==
    /\ (pc = "done" /\ ~event.valid) =>
          /\ result = "failed to parse issue_comment event payload"
          /\ calls = << >>
    /\ (output.fn = "MergeGroupHandler.Handle" /\ ~input.event.valid) =>
          /\ output.ret = "failed to parse merge_group event payload"
          /\ output.calls = << >>

\* The comment handler was given a payload it could not parse.
C21_Witness ==
    /\ pc = "done"
    /\ ~event.valid
    /\ result # "nil"
    /\ calls = << >>

(***************************************************************************)
(* isAllowedTeamMember applied to a list of teams and to what GitHub       *)
(* answers for each of them.                                               *)
(***************************************************************************)

\* The allowed-teams lists: distinct teams.
AllowedTeamLists ==
    {t \in SeqsUpTo({"team1", "team2", "team3"}, MaxTeams) :
        \A a, b \in DOMAIN t : a # b => t[a] # t[b]}

InitTeams ==
    /\ HandlerIdle
    /\ input \in {r \in [teams : AllowedTeamLists,
                         answers : SeqsUpTo(MembershipAnswers, MaxTeams)] :
                     Len(r.answers) = Len(r.teams)}
    /\ output = NoOutput

CallisAllowedTeamMember ==
    /\ output = NoOutput
    /\ LET r == isAllowedTeamMember([Triggers |-> << >>, Workflows |-> << >>,
                                     AllowedTeams |-> input.teams], input.answers)
       IN  output' = [fn |-> "isAllowedTeamMember", ret |-> r.allowed, asked |-> r.asked]
    /\ UNCHANGED << input, hvars >>

NextTeams == CallisAllowedTeamMember

SpecTeams == InitTeams /\ [][NextTeams]_vars

\* The lookup of the k-th team failed, and not with a 404.
LookupFailed(k) ==
    input.answers[k].err /\ (input.answers[k].noResponse \/ input.answers[k].StatusCode # 404)

\* The k-th team answered 404, or a membership that is not active.
NotActiveIn(k) ==
    /\ ~LookupFailed(k)
    /\ input.answers[k].StatusCode = 404 \/ input.answers[k].State # "active"

\* The k-th team answered an active membership.
ActiveIn(k) == ~LookupFailed(k) /\ ~NotActiveIn(k)

\* C23: with a non-empty allowed-teams list, isAllowedTeamMember looks the
\* teams up in list order; a 404 or a membership that is not active makes it
\* try the next team, the first active membership gives true, a lookup
\* error other than a 404 gives false at once, later teams not looked up;
\* when no team grants access the result is false.
C23_TeamsInListOrder ==
    (output.fn = "isAllowedTeamMember" /\ input.teams # << >>) =>
        LET decisive == {k \in DOMAIN input.teams : LookupFailed(k) \/ ActiveIn(k)}
            first == CHOOSE k \in decisive : \A j \in decisive : k <= j
        IN  IF decisive = {}
            THEN output.ret = FALSE /\ output.asked = input.teams
            ELSE /\ output.ret = ActiveIn(first)
                 /\ output.asked = SubSeq(input.teams, 1, first)

\* The lookup of the first team failed with a 500; the author is an active
\* member of the second, which was not looked up: false.
C23_Witness ==
    /\ output.fn = "isAllowedTeamMember"
    /\ Len(input.teams) = 2
    /\ LookupFailed(1)
    /\ ActiveIn(2)
    /\ output.ret = FALSE
    /\ Len(output.asked) = 1

(***************************************************************************)
(* Trigger patterns that do not compile.                                   *)
(***************************************************************************)

\* The positions, in the configuration document, of the patterns that
\* regexp.Compile rejects once anchored.
InvalidTriggers ==
    {j \in DOMAIN input.doc.triggers :
        ~Compile(<< "^" >> \o input.doc.triggers[j].regex \o << "$" >>).ok}

\* C24: a trigger pattern that does not compile is skipped and the other
\* patterns are still tried: CheckForTrigger returns a submatch whenever
\* some pattern that compiles matches the comment, however many patterns
\* are invalid, and nil, nil when every pattern is invalid or does not
\* match.
C24_InvalidPatternsAreSkipped ==
    output.fn = "CheckForTrigger" =>
        /\ (\E j \in MatchingTriggers : j \notin InvalidTriggers)
               => output.submatch # << >>
        /\ (\A j \in DOMAIN input.doc.triggers :
                  j \in InvalidTriggers
                  \/ FindStringSubmatch(
                        Compile(<< "^" >> \o input.doc.triggers[j].regex \o << "$" >>),
                        input.comment) = << >>)
               => output.submatch = << >> /\ output.workflows = << >>

\* The range met an invalid pattern first, then one that matches: the
\* result is the match.
C24_Witness ==
    /\ output.fn = "CheckForTrigger"
    /\ Len(output.order) = 2
    /\ ~Compile(<< "^" >> \o output.order[1] \o << "$" >>).ok
    /\ InvalidTriggers # {}
    /\ output.submatch # << >>
    /\ output.workflows # << >>

\* Every pattern of the configuration is invalid: nil, nil.
C24_WitnessAllInvalid ==
    /\ output.fn = "CheckForTrigger"
    /\ InvalidTriggers = DOMAIN input.doc.triggers
    /\ InvalidTriggers # {}
    /\ output.submatch = << >>

(***************************************************************************)
(* Path relevance, by itself and inside Handle.                            *)
(***************************************************************************)

InitRelevance == Init \/ InitPaths

NextRelevance ==
    \/ IssueCommentDelivery /\ Next
    \/ ~IssueCommentDelivery /\ NextPaths

SpecRelevance == InitRelevance /\ [][NextRelevance]_vars

\* The workflow has an entry in the configuration Handle read, with one
\* pattern defined, which does not compile.
BrokenEntry(workflow) ==
    /\ workflow \in DOMAIN arianeConfig.Workflows
    /\ LET e == arianeConfig.Workflows[workflow]
       IN  \/ e.PathsRegex # << >> /\ e.PathsIgnoreRegex = << >> /\ ~Compiles(e.PathsRegex)
           \/ e.PathsRegex = << >> /\ e.PathsIgnoreRegex # << >>
                 /\ ~Compiles(e.PathsIgnoreRegex)

\* The calls of an API made for the j-th entry of the list.
CallsOfEntry(api, j) == {k \in DOMAIN calls : calls[k].api = api /\ EntriesUpTo(k) = j}

\* Handle returned because the lookup of the workflow of the j-th entry failed.
WorkflowLookupFailed(j) ==
    /\ pc = "done"
    /\ result = "GetWorkflowByFileName failed"
    /\ j = EntriesUpTo(Len(calls))

\* C25: when one of paths-regex and paths-ignore-regex is configured for a
\* workflow, not the other, and it does not compile, ShouldRunWorkflow
\* returns false for every non-empty list of changed files; Handle, when
\* the last run does not make it skip the workflow, does not dispatch it
\* and creates a check run completed/skipped for it (once it has found the
\* workflow).
C25_BrokenPatternNeverRuns ==
    /\ (output.fn = "ShouldRunWorkflow" /\ BrokenPattern /\ input.files # << >>)
          => output.ret = FALSE
    /\ (ConfigRead /\ files # << >>) =>
          \A j \in 1..EntriesUpTo(Len(calls)) :
              BrokenEntry(workflowsToTrigger[j]) =>
                  /\ DispatchesOfEntry(j) = {}
                  /\ ~LastRunEnded(ListingOfEntry(j), {"success", "skipped"}) =>
                        /\ Cardinality(CallsOfEntry("Actions.GetWorkflowByFileName", j)) = 1
                        /\ Cardinality(CallsOfEntry("Checks.CreateCheckRun", j)) =
                              IF WorkflowLookupFailed(j) THEN 0 ELSE 1
                        /\ \A k \in CallsOfEntry("Checks.CreateCheckRun", j) :
                              /\ calls[k].workflow = workflowsToTrigger[j]
                              /\ calls[k].HeadSHA = SHA
                              /\ calls[k].Status = "completed"
                              /\ calls[k].Conclusion = "skipped"

\* The paths-regex of f.y does not compile and the pull request changes
\* f.y itself: Handle reported f.y as skipped.
C25_Witness ==
    /\ ConfigRead
    /\ \E j \in 1..EntriesUpTo(Len(calls)) :
          /\ BrokenEntry(workflowsToTrigger[j])
          /\ CallsOfEntry("Checks.CreateCheckRun", j) # {}
    /\ \E k \in DOMAIN files : files[k] = WorkflowFile(FooYaml)

\* ShouldRunWorkflow, alone, gave false for a pattern that does not compile
\* and a list with the workflow's own file.
C25_WitnessFunction ==
    /\ output.fn = "ShouldRunWorkflow"
    /\ BrokenPattern
    /\ OwnFileChanged
    /\ output.ret = FALSE

(***************************************************************************)
(* ShouldRunWorkflow for an entry without paths-regex.                     *)
(***************************************************************************)

\* The changed files that start with .github/workflows or that the
\* paths-ignore-regex of the entry, if it has one, matches.
IgnorableFiles ==
    {k \in DOMAIN input.files :
        \/ HasPrefix(input.files[k], WorkflowsDir)
        \/ /\ Entry.PathsIgnoreRegex # << >>
           /\ PathMatches(Entry.PathsIgnoreRegex, input.files[k])}

\* C26: for an entry without paths-regex (with a paths-ignore-regex, which
\* compiles, or with neither) and a non-empty list of changed files without
\* the workflow's own file, ShouldRunWorkflow returns true if and only if
\* some changed file neither starts with .github/workflows nor matches
\* ^paths-ignore-regex, that is if the ignorable files are fewer than the
\* changed files.
C26_RunsIffSomeFileNotIgnorable ==
    /\ output.fn = "ShouldRunWorkflow"
    /\ HasEntry
    /\ Entry.PathsRegex = << >>
    /\ Entry.PathsIgnoreRegex = << >> \/ Compiles(Entry.PathsIgnoreRegex)
    /\ input.files # << >>
    /\ ~OwnFileChanged
    => /\ output.ret = (\E k \in DOMAIN input.files : k \notin IgnorableFiles)
       /\ output.ret = (Cardinality(IgnorableFiles) < Len(input.files))

\* An entry with neither pattern; the changed files are .github/workflowsx
\* and the file of another workflow: the workflow does not run.
C26_Witness ==
    /\ output.fn = "ShouldRunWorkflow"
    /\ HasEntry
    /\ Entry.PathsRegex = << >>
    /\ Entry.PathsIgnoreRegex = << >>
    /\ ~OwnFileChanged
    /\ Len(input.files) = 2
    /\ \E k \in DOMAIN input.files : input.files[k] = WorkflowsDir \o << "x" >>
    /\ \E k \in DOMAIN input.files : input.files[k] = WorkflowFile(BarYaml)
    /\ output.ret = FALSE

\* An entry with a paths-ignore-regex; one file is ignored, another is
\* not: the workflow runs.
C26_WitnessRuns ==
    /\ output.fn = "ShouldRunWorkflow"
    /\ OnlyPathsIgnoreRegex
    /\ Compiles(Entry.PathsIgnoreRegex)
    /\ ~OwnFileChanged
    /\ Cardinality(IgnorableFiles) = 1
    /\ Len(input.files) = 2
    /\ output.ret = TRUE

(***************************************************************************)
(* The workflows that the last run makes Handle skip.                      *)
(***************************************************************************)

\* Handle went on after the j-th entry of the list: to the next entry, or,
\* after the last one, to the reaction.
WentOnAfter(j) ==
    \/ pc = "loop" /\ loopIndex > j
    \/ EntriesUpTo(Len(calls)) > j
    \/ pc = "done" /\ j = Len(workflowsToTrigger) /\ Reacted

\* C27: for every workflow of the matched trigger whose last run is
\* completed with success or skipped, Handle makes no dispatch and creates
\* no check run (nor looks the workflow up for one), whatever the changed
\* files say about it, and goes on to the next workflow of the list.
C27_SkippedWorkflowsAreLeftAlone ==
    \A j \in 1..EntriesUpTo(Len(calls)) :
        LastRunEnded(ListingOfEntry(j), {"success", "skipped"}) =>
            /\ DispatchesOfEntry(j) = {}
            /\ CallsOfEntry("Checks.CreateCheckRun", j) = {}
            /\ CallsOfEntry("Actions.GetWorkflowByFileName", j) = {}
            /\ WentOnAfter(j)

\* The last run of the first workflow of the list ended well and the
\* changed files make it run: it was not dispatched, and Handle dispatched
\* the second.
C27_Witness ==
    /\ EntriesUpTo(Len(calls)) = 2
    /\ LastRunEnded(ListingOfEntry(1), {"success", "skipped"})
    /\ Relevant(workflowsToTrigger[1])
    /\ DispatchesOfEntry(1) = {}
    /\ DispatchesOfEntry(2) # {}

(***************************************************************************)
(* The re-run of failed jobs, which shouldSkipWorkflow has commented out.  *)
(***************************************************************************)

\* The requests of rerunFailedJobs.
RerunAPIs ==
    {"Actions.ListWorkflowJobs", "Actions.RerunJobByID", "Actions.RerunFailedJobsByID"}

\* C28: Handle never asks for a re-run of jobs or of the failed jobs of a
\* run, whatever the last run is; a workflow whose last run failed is not
\* skipped: the changed files decide, and it is dispatched, or reported as
\* skipped with a check run.
C28_NoRerun ==
    /\ \A k \in DOMAIN calls : calls[k].api \notin RerunAPIs
    /\ \A j \in 1..EntriesUpTo(Len(calls)) :
          LastRunEnded(ListingOfEntry(j), {"failure"}) =>
              IF Relevant(workflowsToTrigger[j])
              THEN /\ Cardinality(DispatchesOfEntry(j)) = 1
                   /\ CallsOfEntry("Actions.GetWorkflowByFileName", j) = {}
              ELSE /\ DispatchesOfEntry(j) = {}
                   /\ Cardinality(CallsOfEntry("Actions.GetWorkflowByFileName", j)) = 1
                   /\ Cardinality(CallsOfEntry("Checks.CreateCheckRun", j)) =
                         IF WorkflowLookupFailed(j) THEN 0 ELSE 1

\* Two workflows whose last run failed: one was dispatched, the other
\* reported as skipped.
C28_Witness ==
    /\ EntriesUpTo(Len(calls)) = 2
    /\ LastRunEnded(ListingOfEntry(1), {"failure"})
    /\ LastRunEnded(ListingOfEntry(2), {"failure"})
    /\ \E j \in 1..2 : DispatchesOfEntry(j) # {}
    /\ \E j \in 1..2 : CallsOfEntry("Checks.CreateCheckRun", j) # {}

(***************************************************************************)
(* The configuration of an event.                                          *)
(***************************************************************************)

\* The requests for .github/ariane-config.yaml.
GetContentsCalls == {k \in DOMAIN calls : calls[k].api = "Repositories.GetContents"}

\* C29: the configuration of an event is read from the repository once, at
\* the context ref: the base ref of a pull request from a fork, its head
\* ref otherwise.  When it cannot be loaded or parsed Handle returns that
\* error, with no configuration in its place: the request for the file is
\* its last call, and no team lookup, trigger match, dispatch, check run or
\* reaction follows.
C29_ConfigAtContextRefOrError ==
    /\ Cardinality(GetContentsCalls) <= 1
    /\ ConfigRead => GetContentsCalls # {}
    /\ \A k \in GetContentsCalls :
          /\ PullRequestFound
          /\ calls[k].value = IF FromFork THEN pr.Base.Ref ELSE pr.Head.Ref
          /\ calls[k].err = "nil" => ConfigRead
          /\ calls[k].err # "nil" =>
                /\ pc = "done"
                /\ result = calls[k].err
                /\ ~ConfigRead
                /\ k = Len(calls)
                /\ ~Made("Teams.GetTeamMembershipBySlug")
                /\ ~Made("PullRequests.ListFiles")
                /\ ~Made("Actions.ListWorkflowRunsByFileName")
                /\ ~Dispatched
                /\ ~CheckRunCreated
                /\ ~Reacted
                /\ submatch = << >>
                /\ workflowsToTrigger = << >>

\* The configuration of a pull request from a fork could not be parsed: it
\* was asked at the base ref, and Handle returned the error.
C29_Witness ==
    /\ pc = "done"
    /\ result = "failed parsing configuration file"
    /\ PullRequestFound
    /\ pr.Head.Repo.Owner # event.owner
    /\ \E k \in GetContentsCalls : calls[k].value = "main"

(***************************************************************************)
(* createWorkflowDispatchEvent applied to the submatch of a trigger.       *)
(***************************************************************************)

\* Trigger patterns without a group, with one and with two:
\* /c   /c (.+)   /c (.)(.+)   (/c)|(/t)
DispatchPatterns ==
    { << "/", "c" >>,
      << "/", "c", " ", "(", ".", "+", ")" >>,
      << "/", "c", " ", "(", ".", ")", "(", ".", "+", ")" >>,
      << "(", "/", "c", ")", "|", "(", "/", "t", ")" >> }

\* Comments: /c   /t   /c x   /c xy   /c "<   /c a\&>
DispatchComments ==
    { << "/", "c" >>,
      << "/", "t" >>,
      << "/", "c", " ", "x" >>,
      << "/", "c", " ", "x", "y" >>,
      << "/", "c", " ", "\"", "<" >>,
      << "/", "c", " ", "a", "\\", "&", ">" >> }

\* Numbers of pull requests.
DispatchNumbers == {7, 12, 120}

InitDispatchEvent ==
    /\ HandlerIdle
    /\ input \in [pattern : DispatchPatterns, comment : DispatchComments,
                  prNumber : DispatchNumbers, contextRef : {"feature", "main"}]
    /\ output = NoOutput

\* Handle from CheckForTrigger to createWorkflowDispatchEvent: Handle has
\* returned if the comment does not match.
CallcreateWorkflowDispatchEvent ==
    /\ output = NoOutput
    /\ LET config == Unmarshal([triggers |-> << [regex |-> input.pattern,
                                                workflows |-> << FooYaml >>] >>,
                                workflows |-> << >>, allowedTeams |-> << >>])
           match == CheckForTrigger(config, input.comment, << input.pattern >>).submatch
       IN  /\ match # << >>
           /\ output' = [fn |-> "createWorkflowDispatchEvent", submatch |-> match,
                         ret |-> createWorkflowDispatchEvent(input.prNumber,
                                     input.contextRef, "headsha", match)]
    /\ UNCHANGED << input, hvars >>

NextDispatchEvent == CallcreateWorkflowDispatchEvent

SpecDispatchEvent == InitDispatchEvent /\ [][NextDispatchEvent]_vars

RECURSIVE JsonUnescape(_)
\* The text that the body of a JSON string stands for.
JsonUnescape(t) ==
    IF t = << >> THEN << >>
    ELSE IF Head(t) # "\\" THEN << Head(t) >> \o JsonUnescape(Tail(t))
    ELSE IF t[2] = "n" THEN << "\n" >> \o JsonUnescape(SubSeq(t, 3, Len(t)))
    ELSE IF t[2] = "u"
    THEN (CASE SubSeq(t, 3, 6) = << "0", "0", "3", "c" >> -> << "<" >>
            [] SubSeq(t, 3, 6) = << "0", "0", "3", "e" >> -> << ">" >>
            [] SubSeq(t, 3, 6) = << "0", "0", "2", "6" >> -> << "&" >>)
         \o JsonUnescape(SubSeq(t, 7, Len(t)))
    ELSE << t[2] >> \o JsonUnescape(SubSeq(t, 3, Len(t)))

\* t is a JSON string: quotes around a body without a bare quote.
IsJsonString(t) ==
    /\ Len(t) >= 2
    /\ t[1] = "\""
    /\ t[Len(t)] = "\""
    /\ \A k \in 2..(Len(t) - 1) :
          t[k] = "\"" => \E b \in 1..(k - 2) :
                            /\ \A h \in (k - b)..(k - 1) : t[h] = "\\"
                            /\ t[k - b - 1] # "\\"
                            /\ b % 2 = 1

\* The text a JSON string stands for.
JsonDecodeString(t) == JsonUnescape(SubSeq(t, 2, Len(t) - 1))

RECURSIVE Atoi(_)
\* The number a text of digits stands for.
Atoi(t) ==
    IF t = << >> THEN 0
    ELSE 10 * Atoi(SubSeq(t, 1, Len(t) - 1))
         + (CHOOSE d \in 0..9 : Digits[d + 1] = t[Len(t)])

\* C30: the dispatch request has an extra-args input if and only if the
\* submatch of the trigger has more than one element, and its value is
\* then group 1 as a JSON string; no group after group 1 is in the inputs;
\* without a capture group the inputs are PR-number, context-ref and SHA,
\* and nothing else.
C30_ExtraArgsIsGroupOne ==
    output.fn = "createWorkflowDispatchEvent" =>
        LET inputs == output.ret.Inputs
        IN  /\ DOMAIN inputs =
                  IF Len(output.submatch) > 1
                  THEN {"PR-number", "context-ref", "SHA", "extra-args"}
                  ELSE {"PR-number", "context-ref", "SHA"}
            /\ Atoi(inputs["PR-number"]) = input.prNumber
            /\ inputs["context-ref"] = input.contextRef
            /\ inputs["SHA"] = "headsha"
            /\ output.ret.Ref = input.contextRef
            /\ Len(output.submatch) > 1 =>
                  /\ IsJsonString(inputs["extra-args"])
                  /\ JsonDecodeString(inputs["extra-args"]) = output.submatch[2]

\* A pattern with two groups that differ in the comment: extra-args is the
\* first, as a JSON string.
C30_Witness ==
    /\ output.fn = "createWorkflowDispatchEvent"
    /\ Len(output.submatch) = 3
    /\ output.submatch[2] # output.submatch[3]
    /\ output.submatch[3] # << >>
    /\ "extra-args" \in DOMAIN output.ret.Inputs
    /\ JsonDecodeString(output.ret.Inputs["extra-args"]) = output.submatch[2]

\* Group 1 took no part in the match: extra-args is the JSON string "".
C30_WitnessEmptyGroup ==
    /\ output.fn = "createWorkflowDispatchEvent"
    /\ Len(output.submatch) = 3
    /\ output.submatch[2] = << >>
    /\ output.ret.Inputs["extra-args"] = << "\"", "\"" >>

\* Group 1 has characters that JSON escapes.
C30_WitnessEscapes ==
    /\ output.fn = "createWorkflowDispatchEvent"
    /\ output.submatch = << input.comment, << "\"", "<" >> >>
    /\ output.ret.Inputs["extra-args"] =
          << "\"", "\\", "\"", "\\", "u", "0", "0", "3", "c", "\"" >>

\* No group: three inputs.
C30_WitnessNoGroup ==
    /\ output.fn = "createWorkflowDispatchEvent"
    /\ Len(output.submatch) = 1
    /\ DOMAIN output.ret.Inputs = {"PR-number", "context-ref", "SHA"}

(***************************************************************************)
(* Two invocations of Handle at once.  Each has its own local variables;   *)
(* the fields of the handlers and the variable of the package are the same *)
(* for both.  What GitHub answers to an invocation is fixed beforehand.    *)
(***************************************************************************)

\* The fields of the two handlers (the client creator is the same object)
\* and the package variable configGetArianeConfigFromRepository, which
\* holds the function Handle loads the configuration with.
SharedInit ==
    [ClientCreator |-> "cc",
     RunDelay |-> "serverConfig.RunDelay",
     configGetArianeConfigFromRepository |->
        [fn |-> "config.GetArianeConfigFromRepository", config |-> << >>]]

\* The local variables of an invocation when Handle is entered.
Start(kind) ==
    [kind |-> kind, pc |-> "idle", steps |-> 0, calls |-> << >>, result |-> "none",
     botUser |-> FALSE, pr |-> << >>, contextRef |-> "", SHA |-> "",
     arianeConfig |-> << >>, submatch |-> << >>, workflowsToTrigger |-> << >>,
     workflowDispatchEvent |-> << >>, files |-> << >>, checks |-> << >>,
     loopIndex |-> 0]

\* The invocation returns.
Returned(l, err) == [l EXCEPT !.pc = "done", !.result = err]

\* One step of PRCommentHandler.Handle on the local variables l, with the
\* shared variables sh and the answers r of GitHub for this event.
PRCommentStep(l, sh, r) ==
    CASE l.pc = "idle" ->
            IF ~r.event.valid
            THEN Returned(l, "failed to parse issue_comment event payload")
            ELSE IF ~r.event.isPullRequest THEN Returned(l, "nil")
            ELSE IF r.event.action # "created" THEN Returned(l, "nil")
            ELSE [l EXCEPT !.pc = "NewInstallationClient"]
      [] l.pc = "NewInstallationClient" ->
            LET called == [l EXCEPT !.calls = Append(@, [api |-> "NewInstallationClient"])]
            IN  IF r.clientErr THEN Returned(called, "NewInstallationClient failed")
                ELSE IF HasSuffix(r.event.author, << "[", "b", "o", "t", "]" >>)
                THEN IF ~HasPrefix(r.event.author, r.event.owner)
                     THEN Returned(called, "nil")
                     ELSE [called EXCEPT !.pc = "getPullRequest", !.botUser = TRUE]
                ELSE [called EXCEPT !.pc = "getPullRequest"]
      [] l.pc = "getPullRequest" ->
            LET g == getPullRequest(r.listing, r.event.number)
                called == [l EXCEPT !.calls = @ \o CallsFor("PullRequests.List", "page",
                                                            g.fetched)]
            IN  IF g.err # "nil" THEN Returned(called, g.err)
                ELSE LET c == determineContextRef(g.pr, r.event.owner, r.event.repo)
                     IN  [called EXCEPT !.pr = g.pr, !.contextRef = c.contextRef,
                                        !.SHA = c.SHA,
                                        !.pc = "GetArianeConfigFromRepository"]
      [] l.pc = "GetArianeConfigFromRepository" ->
            LET f == sh.configGetArianeConfigFromRepository
            IN  IF f.fn = "config.GetArianeConfigFromRepository"
                THEN LET called ==
                            [l EXCEPT !.calls =
                                Append(@, [api |-> "Repositories.GetContents",
                                           key |-> "ref", value |-> l.contextRef,
                                           err |-> r.config.err])]
                     IN  IF r.config.err # "nil" THEN Returned(called, r.config.err)
                         ELSE [called EXCEPT !.arianeConfig = Unmarshal(r.config.doc),
                                             !.pc = "isAllowedTeamMember"]
                ELSE [l EXCEPT !.arianeConfig = f.config, !.pc = "isAllowedTeamMember"]
      [] l.pc = "isAllowedTeamMember" ->
            IF l.botUser THEN [l EXCEPT !.pc = "CheckForTrigger"]
            ELSE LET a == isAllowedTeamMember(l.arianeConfig, r.answers)
                     called == [l EXCEPT !.calls =
                                   @ \o CallsFor("Teams.GetTeamMembershipBySlug", "team",
                                                 a.asked)]
                 IN  IF ~a.allowed THEN Returned(called, "nil")
                     ELSE [called EXCEPT !.pc = "CheckForTrigger"]
      [] l.pc = "CheckForTrigger" ->
            LET t == CheckForTrigger(l.arianeConfig, r.event.body, r.order)
            IN  IF t.submatch = << >> THEN Returned(l, "nil")
                ELSE [l EXCEPT !.submatch = t.submatch,
                               !.workflowsToTrigger = t.workflows,
                               !.workflowDispatchEvent =
                                   createWorkflowDispatchEvent(r.event.number, l.contextRef,
                                                               l.SHA, t.submatch),
                               !.pc = "getPRFiles"]
      [] l.pc = "getPRFiles" ->
            LET g == getPRFiles(r.changed)
                called == [l EXCEPT !.calls = @ \o CallsFor("PullRequests.ListFiles", "page",
                                                            g.fetched)]
            IN  IF g.err # "nil" THEN Returned(called, g.err)
                ELSE [called EXCEPT !.files = g.files, !.loopIndex = 1, !.pc = "loop"]
      [] l.pc = "loop" /\ l.loopIndex <= Len(l.workflowsToTrigger) ->
            LET workflow == l.workflowsToTrigger[l.loopIndex]
                listed == [l EXCEPT !.calls =
                              Append(@, [api |-> "Actions.ListWorkflowRunsByFileName",
                                         workflow |-> workflow, sha |-> l.SHA,
                                         answer |-> r.runs])]
                decision == WorkflowDecision(l.arianeConfig, workflow, l.files, r.runs)
                dispatch == [api |-> "Actions.CreateWorkflowDispatchEventByFileName",
                             workflow |-> workflow, event |-> l.workflowDispatchEvent,
                             err |-> r.failing = "dispatch"]
                getWorkflow == [api |-> "Actions.GetWorkflowByFileName",
                                key |-> "workflow", value |-> workflow,
                                err |-> r.failing = "lookup"]
                checkRun == [api |-> "Checks.CreateCheckRun", workflow |-> workflow,
                             Name |-> WorkflowName(workflow), HeadSHA |-> l.SHA,
                             Status |-> "completed", Conclusion |-> "skipped",
                             err |-> r.failing = "checkrun"]
            IN  IF decision = "continue" THEN [listed EXCEPT !.loopIndex = @ + 1]
                ELSE IF decision = "triggerWorkflow"
                THEN    IF r.failing = "dispatch"
                        THEN Returned([listed EXCEPT !.calls = Append(@, dispatch)],
                                      "CreateWorkflowDispatchEventByFileName failed")
                        ELSE [listed EXCEPT !.calls = Append(@, dispatch),
                                            !.loopIndex = @ + 1]
                ELSE    IF r.failing = "lookup"
                        THEN Returned([listed EXCEPT !.calls = Append(@, getWorkflow)],
                                      "GetWorkflowByFileName failed")
                        ELSE IF r.failing = "checkrun"
                        THEN Returned([listed EXCEPT !.calls = @ \o << getWorkflow, checkRun >>],
                                      "CreateCheckRun failed")
                        ELSE [listed EXCEPT !.calls = @ \o << getWorkflow, checkRun >>,
                                            !.loopIndex = @ + 1]
      [] l.pc = "loop" /\ l.loopIndex > Len(l.workflowsToTrigger) ->
            Returned([l EXCEPT !.calls =
                         Append(@, [api |-> "Reactions.CreateIssueCommentReaction",
                                    commentID |-> r.event.commentID, content |-> "rocket",
                                    err |-> r.failing = "reaction"])],
                     IF r.failing = "reaction" THEN "CreateIssueCommentReaction failed"
                     ELSE "nil")

\* One step of MergeGroupHandler.Handle on the local variables l, with the
\* answers r of GitHub for this event.
MergeGroupStep(l, sh, r) ==
    CASE l.pc = "idle" ->
            IF ~r.event.valid
            THEN Returned(l, "failed to parse merge_group event payload")
            ELSE IF r.event.action # "checks_requested" THEN Returned(l, "nil")
            ELSE [l EXCEPT !.pc = "NewInstallationClient"]
      [] l.pc = "NewInstallationClient" ->
            LET called == [l EXCEPT !.calls = Append(@, [api |-> "NewInstallationClient"])]
            IN  IF r.clientErr THEN Returned(called, "NewInstallationClient failed")
                ELSE [called EXCEPT !.pc = "GetBranchProtection"]
      [] l.pc = "GetBranchProtection" ->
            LET called == [l EXCEPT !.calls =
                              Append(@, [api |-> "Repositories.GetBranchProtection",
                                         key |-> "branch", value |-> r.event.baseRef])]
            IN  IF r.branchPro.err THEN Returned(called, "GetBranchProtection failed")
                ELSE [called EXCEPT !.checks = r.branchPro.checks, !.SHA = r.event.headSHA,
                                    !.loopIndex = 1, !.pc = "loop"]
      [] l.pc = "loop" /\ l.loopIndex <= Len(l.checks) ->
            LET ch == l.checks[l.loopIndex]
            IN  IF ch.AppID # 0 THEN [l EXCEPT !.loopIndex = @ + 1]
                ELSE [l EXCEPT !.calls =
                         Append(@, [api |-> "Checks.CreateCheckRun", Name |-> ch.Context,
                                    HeadSHA |-> l.SHA, Status |-> "completed",
                                    Conclusion |-> "success",
                                    err |-> r.createErr[l.loopIndex]]),
                               !.loopIndex = @ + 1]
      [] l.pc = "loop" /\ l.loopIndex > Len(l.checks) -> Returned(l, "nil")

\* HandleStep that keeps the configuration it has loaded for the events to
\* come.
HandleStep_KeepsConfig(l, sh, r) ==
    LET n == IF l.kind = "issue_comment" THEN PRCommentStep(l, sh, r)
             ELSE MergeGroupStep(l, sh, r)
    IN  [l |-> [n EXCEPT !.steps = @ + 1],
         sh |-> IF l.pc = "GetArianeConfigFromRepository" /\ n.pc # "done"
                THEN [sh EXCEPT !.configGetArianeConfigFromRepository =
                                    [fn |-> "kept", config |-> n.arianeConfig]]
                ELSE sh]

\* One step of an invocation of Handle: its local variables after the step,
\* and the shared variables, which no step assigns.
HandleStep(l, sh, r) ==
    [l |-> [(IF l.kind = "issue_comment" THEN PRCommentStep(l, sh, r)
             ELSE MergeGroupStep(l, sh, r)) EXCEPT !.steps = @ + 1],
     sh |-> sh]

\* What GitHub answers to an issue_comment event that Handle takes to its
\* end: al, an active member of team1, commented /c on pull request 12,
\* which changes t/a; f.y is reported as skipped and b.y is dispatched.
CommentAnswers ==
    [kind |-> "issue_comment",
     event |-> [valid |-> TRUE, isPullRequest |-> TRUE, action |-> "created",
                author |-> << "a", "l" >>, body |-> << "/", "c" >>,
                number |-> IssueNumber, owner |-> RepositoryOwner,
                repo |-> RepositoryName, commentID |-> CommentID],
     clientErr |-> FALSE,
     listing |-> << [prs |-> << PullRequest(IssueNumber, FALSE) >>, err |-> FALSE,
                     NextPage |-> NoNextPage] >>,
     config |-> [err |-> "nil",
                 doc |-> [triggers |-> << [regex |-> << "/", "c" >>,
                                           workflows |-> << FooYaml, BarYaml >>] >>,
                          workflows |->
                              [w \in {FooYaml} |->
                                  [PathsRegex |-> << >>,
                                   PathsIgnoreRegex |-> << "(", "t", "|", "d", ")", "/" >>]],
                          allowedTeams |-> << "team1" >>]],
     order |-> << << "/", "c" >> >>,
     answers |-> << [member |-> "active", err |-> FALSE, noResponse |-> FALSE,
                     StatusCode |-> 200, State |-> "active"] >>,
     changed |-> << [files |-> << << "t", "/", "a" >> >>, err |-> FALSE,
                     NextPage |-> NoNextPage] >>,
     runs |-> [err |-> FALSE, nil |-> FALSE, WorkflowRuns |-> << >>],
     failing |-> "none"]

\* The answers to the issue_comment events of the model: those above, and
\* the same with another event, pull request or configuration, or with a
\* call that fails.
CommentScenarios ==
    {CommentAnswers}
    \cup {[CommentAnswers EXCEPT !.event = MalformedPayload]}
    \cup {[CommentAnswers EXCEPT !.event.action = "edited"]}
    \cup {[CommentAnswers EXCEPT !.event.author = a] : a \in Authors}
    \cup {[CommentAnswers EXCEPT !.clientErr = TRUE]}
    \cup {[CommentAnswers EXCEPT !.listing[1].prs = << PullRequest(IssueNumber, TRUE) >>]}
    \cup {[CommentAnswers EXCEPT !.listing[1].err = TRUE]}
    \cup {[CommentAnswers EXCEPT !.config.err = e] : e \in ConfigErrors}
    \cup {[CommentAnswers EXCEPT !.config.doc.allowedTeams = << >>]}
    \cup {[CommentAnswers EXCEPT !.answers[1] = a] : a \in MembershipAnswers}
    \cup {[CommentAnswers EXCEPT !.runs = a] : a \in RunsAnswers}
    \cup {[CommentAnswers EXCEPT !.failing = f] :
             f \in {"dispatch", "lookup", "checkrun", "reaction"}}

\* What GitHub answers to a merge_group event that Handle takes to its end:
\* two required checks, one of any source.
MergeGroupAnswers ==
    [kind |-> "merge_group",
     event |-> [valid |-> TRUE, action |-> "checks_requested",
                baseRef |-> "refs/heads/main", headSHA |-> "mergesha"],
     clientErr |-> FALSE,
     branchPro |-> [err |-> FALSE,
                    checks |-> << [Context |-> "ci", AppID |-> AnySource],
                                  [Context |-> "lint", AppID |-> SomeApp] >>],
     createErr |-> << FALSE, FALSE >>]

\* The answers to the merge_group events of the model.
MergeGroupScenarios ==
    {MergeGroupAnswers}
    \cup {[MergeGroupAnswers EXCEPT !.event = MalformedPayload]}
    \cup {[MergeGroupAnswers EXCEPT !.event.action = "destroyed"]}
    \cup {[MergeGroupAnswers EXCEPT !.clientErr = TRUE]}
    \cup {[MergeGroupAnswers EXCEPT !.branchPro = [err |-> TRUE, checks |-> << >>]]}
    \cup {[MergeGroupAnswers EXCEPT !.createErr[1] = TRUE]}

\* Two events are delivered; each Handle is entered.
InitConcurrent ==
    /\ HandlerIdle
    /\ input \in [responses : [1..2 -> CommentScenarios \cup MergeGroupScenarios]]
    /\ output = [fn |-> "Handle",
                 inv |-> [i \in 1..2 |-> Start(input.responses[i].kind)],
                 shared |-> SharedInit,
                 overlapped |-> FALSE]

\* The i-th invocation takes a step; overlapped records that it did so
\* while the other was inside Handle.
Step(i) ==
    /\ output.inv[i].pc # "done"
    /\ LET s == HandleStep(output.inv[i], output.shared, input.responses[i])
           other == output.inv[3 - i]
       IN  output' = [output EXCEPT
                         !.inv[i] = s.l,
                         !.shared = s.sh,
                         !.overlapped = @ \/ (other.steps > 0 /\ other.pc # "done")]
    /\ UNCHANGED << input, hvars >>

NextConcurrent == \E i \in 1..2 : Step(i)

SpecConcurrent == InitConcurrent /\ [][NextConcurrent]_vars

RECURSIVE RunAloneFrom(_, _, _, _)
\* The local variables of an invocation n steps after l, when no other
\* invocation takes a step.
RunAloneFrom(l, sh, r, n) ==
    IF n = 0 \/ l.pc = "done" THEN l
    ELSE LET s == HandleStep(l, sh, r)
         IN  RunAloneFrom(s.l, s.sh, r, n - 1)

\* The local variables of an invocation that runs alone, after n steps.
Alone(r, n) == RunAloneFrom(Start(r.kind), SharedInit, r, n)

C22_WitnessBothHandlers ==
    /\ output.fn = "Handle"
    /\ output.overlapped
    /\ input.responses[1].kind = "issue_comment"
    /\ input.responses[2].kind = "merge_group"
    /\ \A i \in 1..2 : output.inv[i].pc = "done" /\ Len(output.inv[i].calls) > 2

(***************************************************************************)
(* The workflows that Handle reports as skipped.                           *)
(***************************************************************************)

\* C31: for every workflow of the matched trigger that its last run does
\* not make Handle skip and that the changed files do not make run, Handle
\* looks the workflow up and creates one check run, completed and skipped,
\* for the head SHA of the pull request; when the lookup fails no check run
\* is created, Handle returns the error and the workflows that follow are
\* not examined.  No check run is created for any other workflow.
C31_IrrelevantWorkflowsGetSkippedCheckRun ==
    \A j \in 1..EntriesUpTo(Len(calls)) :
        LET lookups == CallsOfEntry("Actions.GetWorkflowByFileName", j)
            checkRuns == CallsOfEntry("Checks.CreateCheckRun", j)
        IN  IF /\ ~LastRunEnded(ListingOfEntry(j), {"success", "skipped"})
               /\ ~Relevant(workflowsToTrigger[j])
            THEN /\ Cardinality(lookups) = 1
                 /\ \A k \in lookups :
                       /\ calls[k].value = workflowsToTrigger[j]
                       /\ IF calls[k].err
                          THEN /\ checkRuns = {}
                               /\ k = Len(calls)
                               /\ pc = "done"
                               /\ result = "GetWorkflowByFileName failed"
                               /\ ~Reacted
                          ELSE /\ Cardinality(checkRuns) = 1
                               /\ \A c \in checkRuns :
                                     /\ c = k + 1
                                     /\ calls[c].workflow = workflowsToTrigger[j]
                                     /\ calls[c].Name = WorkflowName(workflowsToTrigger[j])
                                     /\ calls[c].HeadSHA = pr.Head.SHA
                                     /\ calls[c].Status = "completed"
                                     /\ calls[c].Conclusion = "skipped"
            ELSE lookups = {} /\ checkRuns = {}

\* The lookup of the first of two workflows failed: no check run, and the
\* second workflow was not examined.
C31_Witness ==
    /\ pc = "done"
    /\ result = "GetWorkflowByFileName failed"
    /\ Len(workflowsToTrigger) = 2
    /\ EntriesUpTo(Len(calls)) = 1
    /\ ~CheckRunCreated

\* Two workflows were reported as skipped, one after the other.
C31_WitnessTwoCheckRuns ==
    /\ EntriesUpTo(Len(calls)) = 2
    /\ \A j \in 1..2 : Cardinality(CallsOfEntry("Checks.CreateCheckRun", j)) = 1

(***************************************************************************)
(* The reaction to the comment.                                            *)
(***************************************************************************)

ReactionCalls ==
    {k \in DOMAIN calls : calls[k].api = "Reactions.CreateIssueCommentReaction"}

\* The calls of the loop that failed: dispatches, lookups of a workflow,
\* check runs.
FailedInLoop ==
    {k \in DOMAIN calls :
        /\ calls[k].api \in {"Actions.CreateWorkflowDispatchEventByFileName",
                             "Actions.GetWorkflowByFileName", "Checks.CreateCheckRun"}
        /\ calls[k].err}

\* C32: the rocket reaction is posted at most once for an event, as the
\* last call, and only when every workflow of the matched trigger has been
\* gone through without error; it is posted whenever Handle gets that far,
\* also when every workflow was skipped for its last run or the list of
\* the trigger is empty.
C32_RocketOnceAfterAllWorkflows ==
    /\ Cardinality(ReactionCalls) <= 1
    /\ \A k \in ReactionCalls :
          /\ k = Len(calls)
          /\ calls[k].content = "rocket"
          /\ calls[k].commentID = event.commentID
          /\ submatch # << >>
          /\ EntriesUpTo(Len(calls)) = Len(workflowsToTrigger)
          /\ FailedInLoop = {}
          /\ pc = "done"
    /\ (pc = "done" /\ submatch # << >> /\ ~Reacted) =>
          \/ result = "PullRequests.ListFiles failed"
                /\ ~Made("Actions.ListWorkflowRunsByFileName")
          \/ /\ FailedInLoop = {Len(calls)}
             /\ result \in {"CreateWorkflowDispatchEventByFileName failed",
                            "GetWorkflowByFileName failed", "CreateCheckRun failed"}

\* The list of the matched trigger is empty: the reaction is the only
\* call after the listing of the changed files.
C32_Witness ==
    /\ Reacted
    /\ submatch # << >>
    /\ workflowsToTrigger = << >>
    /\ ~Dispatched
    /\ ~CheckRunCreated

\* Two workflows, both skipped for their last run: the reaction follows.
C32_WitnessAllSkipped ==
    /\ Reacted
    /\ Len(workflowsToTrigger) = 2
    /\ \A j \in 1..2 : LastRunEnded(ListingOfEntry(j), {"success", "skipped"})
    /\ ~Dispatched
    /\ ~CheckRunCreated

(***************************************************************************)
(* getPullRequest, by itself and inside Handle.                            *)
(***************************************************************************)

InitPullRequest ==
    /\ HandlerIdle
    /\ input \in [listing : PullRequestListings,
                  prNumber : {IssueNumber, IssueNumber + 1}]
    /\ output = NoOutput

CallgetPullRequest ==
    /\ output = NoOutput
    /\ LET r == getPullRequest(input.listing, input.prNumber)
       IN  output' = [fn |-> "getPullRequest", pr |-> r.pr, err |-> r.err,
                      fetched |-> r.fetched]
    /\ UNCHANGED << input, hvars >>

NextPullRequest ==
    \/ IssueCommentDelivery /\ Next
    \/ ~IssueCommentDelivery /\ CallgetPullRequest

SpecPullRequest == (Init \/ InitPullRequest) /\ [][NextPullRequest]_vars

\* The k-th page of the listing has the pull request.
PageHas(k) ==
    \E j \in DOMAIN input.listing[k].prs : input.listing[k].prs[j].Number = input.prNumber

\* The pages at which getPullRequest stops: the request fails, or the page
\* has the pull request.
StopPages == {k \in DOMAIN input.listing : input.listing[k].err \/ PageHas(k)}

\* The page a chain of NextPage leads to from page 1 in n steps.
RECURSIVE PageAfter(_)
PageAfter(n) == IF n = 0 THEN 1 ELSE input.listing[PageAfter(n - 1)].NextPage

\* C33: getPullRequest asks for the pages of open pull requests one after
\* the other, following NextPage; it returns the pull request with the
\* number of the event from the first page that has it, the error of the
\* first request that fails, and "pull request not found" when the page
\* with NextPage 0 is reached without either.  In Handle an error of
\* getPullRequest is returned with no configuration read, no team looked
\* up, no dispatch, no check run and no reaction.
C33_PagesUntilFoundOrLast ==
    /\ output.fn = "getPullRequest" =>
          /\ \A n \in DOMAIN output.fetched : output.fetched[n] = PageAfter(n - 1)
          /\ IF StopPages = {}
             THEN /\ output.err = "pull request not found"
                  /\ output.pr = << >>
                  /\ Len(output.fetched) = Len(input.listing)
                  /\ input.listing[output.fetched[Len(output.fetched)]].NextPage = 0
             ELSE LET stop == CHOOSE k \in StopPages : \A h \in StopPages : k <= h
                  IN  /\ Len(output.fetched) = stop
                      /\ IF input.listing[stop].err
                         THEN output.err = "PullRequests.List failed" /\ output.pr = << >>
                         ELSE /\ output.err = "nil"
                              /\ output.pr.Number = input.prNumber
                              /\ \E j \in DOMAIN input.listing[stop].prs :
                                    output.pr = input.listing[stop].prs[j]
    /\ (pc = "done" /\ Made("PullRequests.List") /\ ~PullRequestFound) =>
          /\ result \in {"PullRequests.List failed", "pull request not found"}
          /\ calls[Len(calls)].api = "PullRequests.List"
          /\ ~Made("Repositories.GetContents")
          /\ ~Made("Teams.GetTeamMembershipBySlug")
          /\ ~Dispatched
          /\ ~CheckRunCreated
          /\ ~Reacted
    /\ result \in {"PullRequests.List failed", "pull request not found"} =>
          pc = "done" /\ ~PullRequestFound

\* No page has the pull request: every page was asked for, and the result
\* is "pull request not found".
C33_Witness ==
    /\ output.fn = "getPullRequest"
    /\ Len(input.listing) = MaxPages
    /\ output.fetched = [n \in 1..MaxPages |-> n]
    /\ output.err = "pull request not found"

\* The second page has the pull request.
C33_WitnessSecondPage ==
    /\ output.fn = "getPullRequest"
    /\ Len(output.fetched) = 2
    /\ output.err = "nil"
    /\ output.pr.Number = input.prNumber

\* Handle returned "pull request not found" after the listing.
C33_WitnessHandle ==
    /\ pc = "done"
    /\ result = "pull request not found"
    /\ calls[Len(calls)].api = "PullRequests.List"

(***************************************************************************)
(* The side effects of the loop of Handle, entry by entry.                 *)
(***************************************************************************)

\* The dispatches and check runs requested for the j-th entry of the list.
EffectsOfEntry(j) ==
    DispatchesOfEntry(j) \cup CallsOfEntry("Checks.CreateCheckRun", j)

\* C34: for one comment, each entry of the workflow list of the trigger
\* gets at most one request that is a dispatch or a skipped check run, never
\* both, each request names the workflow of its entry, and the requests are
\* made in the order of the list.
C34_OneEffectPerEntryInOrder ==
    /\ \A j \in 1..Len(workflowsToTrigger) : Cardinality(EffectsOfEntry(j)) <= 1
    /\ \A k \in DispatchCalls \cup CheckRunCalls :
          /\ EntriesUpTo(k) \in 1..Len(workflowsToTrigger)
          /\ calls[k].workflow = workflowsToTrigger[EntriesUpTo(k)]
    /\ \A k, h \in DispatchCalls \cup CheckRunCalls :
          k < h => EntriesUpTo(k) < EntriesUpTo(h)
    /\ \A j \in 1..EntriesUpTo(Len(calls)) :
          /\ j <= Len(workflowsToTrigger)
          /\ ListingOfEntry(j).workflow = workflowsToTrigger[j]

\* A list of two workflows: the first was dispatched, the second reported as
\* skipped.
C34_Witness ==
    /\ pc = "done"
    /\ Len(workflowsToTrigger) = 2
    /\ workflowsToTrigger[1] # workflowsToTrigger[2]
    /\ DispatchesOfEntry(1) # {}
    /\ CallsOfEntry("Checks.CreateCheckRun", 2) # {}

(***************************************************************************)
(* Path relevance and the list of changed files: its order, its growth,    *)
(* and the entry without patterns.                                         *)
(***************************************************************************)

\* The function of output applied to the configuration and the workflow of
\* input and to a list of changed files.
AppliedTo(changed) ==
    IF output.fn = "ShouldRunWorkflow"
    THEN ShouldRunWorkflow(input.config, input.workflow, changed)
    ELSE IF output.fn = "ShouldRunOnlyWorkflows"
    THEN ShouldRunOnlyWorkflows(input.config, input.workflow, changed)
    ELSE shouldRunWorkflow(input.config, input.workflow, changed)

\* The orders a list of n files can be put in.
Reorderings(n) == {p \in [1..n -> 1..n] : \A a, b \in 1..n : a # b => p[a] # p[b]}

Reordered(changed, p) == [k \in DOMAIN changed |-> changed[p[k]]]

\* The list with one more file after its first n files.
WithFileAt(changed, n, filename) ==
    SubSeq(changed, 1, n) \o << filename >> \o SubSeq(changed, n + 1, Len(changed))

\* C35: ShouldRunWorkflow and ShouldRunOnlyWorkflows (and the handler's
\* choice between them) return the same for every order of the changed
\* files.
C35_OrderOfFilesIrrelevant ==
    output.fn \in {"ShouldRunWorkflow", "ShouldRunOnlyWorkflows", "shouldRunWorkflow"} =>
        \A p \in Reorderings(Len(input.files)) :
            AppliedTo(Reordered(input.files, p)) = output.ret

\* ShouldRunWorkflow answered true for three different files, the first of
\* them a file of another workflow, the last the workflow's own.
C35_Witness ==
    /\ output.fn = "ShouldRunWorkflow"
    /\ output.ret
    /\ Len(input.files) = 3
    /\ \A a, b \in 1..3 : a # b => input.files[a] # input.files[b]
    /\ input.files[1] # WorkflowFile(input.workflow)
    /\ HasPrefix(input.files[1], WorkflowsDir)
    /\ input.files[3] = WorkflowFile(input.workflow)

\* C36: when ShouldRunWorkflow or ShouldRunOnlyWorkflows returns true for a
\* list of changed files, it returns true for the list with one more file
\* at any place (and so, file by file, for every list with more files).
C36_MoreFilesStayRelevant ==
    (/\ output.fn \in {"ShouldRunWorkflow", "ShouldRunOnlyWorkflows", "shouldRunWorkflow"}
     /\ output.ret) =>
        \A filename \in FileNames, n \in 0..Len(input.files) :
            AppliedTo(WithFileAt(input.files, n, filename))

\* ShouldRunWorkflow answered true for an entry with paths-ignore-regex
\* and one file that is not ignored; files that are ignored can be added.
C36_Witness ==
    /\ output.fn = "ShouldRunWorkflow"
    /\ output.ret
    /\ HasEntry
    /\ input.config.Workflows[input.workflow].PathsRegex = << >>
    /\ input.config.Workflows[input.workflow].PathsIgnoreRegex
         = << "(", "t", "|", "d", ")", "/" >>
    /\ input.files = << << "x", "/", "a" >> >>

\* The workflow has an entry with neither paths-regex nor
\* paths-ignore-regex.
EntryWithoutPatterns ==
    /\ HasEntry
    /\ input.config.Workflows[input.workflow].PathsRegex = << >>
    /\ input.config.Workflows[input.workflow].PathsIgnoreRegex = << >>

\* C37: for a workflow whose entry has neither paths-regex nor
\* paths-ignore-regex, ShouldRunWorkflow returns what ShouldRunOnlyWorkflows
\* returns for the same workflow and files, and the handler decides as it
\* does for the configuration without the entry.
C37_EntryWithoutPatternsAsNoEntry ==
    /\ (output.fn = "ShouldRunWorkflow" /\ EntryWithoutPatterns) =>
          output.ret = ShouldRunOnlyWorkflows(input.config, input.workflow, input.files)
    /\ (output.fn = "shouldRunWorkflow" /\ EntryWithoutPatterns) =>
          output.ret = shouldRunWorkflow([input.config EXCEPT !.Workflows = << >>],
                                         input.workflow, input.files)

\* An entry without patterns, a file of another workflow and a file outside
\* .github/workflows: the workflow runs.
C37_Witness ==
    /\ output.fn = "ShouldRunWorkflow"
    /\ EntryWithoutPatterns
    /\ output.ret
    /\ \E k \in DOMAIN input.files :
          HasPrefix(input.files[k], WorkflowsDir)
    /\ \A k \in DOMAIN input.files : input.files[k] # WorkflowFile(input.workflow)

\* An entry without patterns and only files of other workflows: it does not.
C37_WitnessOtherWorkflows ==
    /\ output.fn = "ShouldRunWorkflow"
    /\ EntryWithoutPatterns
    /\ ~output.ret
    /\ Len(input.files) > 0

(***************************************************************************)
(* A listing of runs that fails.                                           *)
(***************************************************************************)

\* The entries of the list whose runs could not be listed.
EntriesWithFailedListing ==
    {j \in 1..EntriesUpTo(Len(calls)) : ListingOfEntry(j).answer.err}

\* C38: when the runs of a workflow cannot be listed, Handle does not
\* return that failure: the workflow is handled as one without a previous
\* run, dispatched when the changed files make it run and looked up to be
\* reported as skipped when they do not.
C38_FailedListingIsNoPriorRun ==
    /\ \A j \in EntriesWithFailedListing :
          IF Relevant(workflowsToTrigger[j])
          THEN /\ Cardinality(DispatchesOfEntry(j)) = 1
               /\ CallsOfEntry("Actions.GetWorkflowByFileName", j) = {}
               /\ CallsOfEntry("Checks.CreateCheckRun", j) = {}
          ELSE /\ DispatchesOfEntry(j) = {}
               /\ Cardinality(CallsOfEntry("Actions.GetWorkflowByFileName", j)) = 1
               /\ \A k \in CallsOfEntry("Actions.GetWorkflowByFileName", j) :
                     ~calls[k].err =>
                         Cardinality(CallsOfEntry("Checks.CreateCheckRun", j)) = 1
    /\ (pc = "done" /\ EntriesUpTo(Len(calls)) > 0) =>
          result \in {"nil", "CreateWorkflowDispatchEventByFileName failed",
                      "GetWorkflowByFileName failed", "CreateCheckRun failed",
                      "CreateIssueCommentReaction failed"}

\* The runs of both workflows of the list could not be listed: one was
\* dispatched, the other reported as skipped, and Handle returned nil.
C38_Witness ==
    /\ pc = "done"
    /\ result = "nil"
    /\ EntriesWithFailedListing = {1, 2}
    /\ \E j \in {1, 2} : DispatchesOfEntry(j) # {}
    /\ \E j \in {1, 2} : CallsOfEntry("Checks.CreateCheckRun", j) # {}

(***************************************************************************)
(* The ways out of MergeGroupHandler.Handle before the required checks.    *)
(***************************************************************************)

\* Handle was delivered a merge_group event with this action or another.
MergeGroupDelivered(checksRequested) ==
    /\ output.fn = "MergeGroupHandler.Handle"
    /\ input.event.valid
    /\ (input.event.action = "checks_requested") = checksRequested

\* C39: on a merge_group event whose action is not checks_requested, Handle
\* returns nil and has created no client and made no call; when the branch
\* protection of the base ref cannot be fetched, Handle returns that error
\* and has asked for no check run.
C39_MergeGroupEarlyReturns ==
    /\ MergeGroupDelivered(FALSE) =>
          /\ output.ret = "nil"
          /\ output.calls = << >>
    /\ (MergeGroupDelivered(TRUE) /\ ~input.clientErr /\ input.branchPro.err) =>
          /\ output.ret = "GetBranchProtection failed"
          /\ Len(CheckRunsAsked) = 0
          /\ Len(output.calls) = 2
          /\ output.calls[1].api = "NewInstallationClient"
          /\ output.calls[2].api = "Repositories.GetBranchProtection"
          /\ output.calls[2].value = input.event.baseRef

\* The branch protection could not be fetched.
C39_Witness ==
    /\ MergeGroupDelivered(TRUE)
    /\ ~input.clientErr
    /\ input.branchPro.err
    /\ output.ret = "GetBranchProtection failed"

\* A merge group was destroyed.
C39_WitnessOtherAction ==
    /\ MergeGroupDelivered(FALSE)
    /\ input.event.action = "destroyed"
    /\ output.ret = "nil"

(***************************************************************************)
(* rerunFailedJobs: the caller, which adds one to the wait group, starts   *)
(* the task and later waits for the group, and the task.                   *)
(***************************************************************************)

\* Most jobs in a listing.
MaxJobs == 2

CommitStatusStart == "Commit Status Start"

\* The run whose failed jobs are to be re-run.
RunID == 99

\* The jobs of a run: job ids are GitHub's, which are positive.
Jobs == [Name : {CommitStatusStart, "build"}, ID : {41, 42}]

\* The answers of Actions.ListWorkflowJobs.
JobsAnswers ==
    {[err |-> TRUE, Jobs |-> << >>]} \cup [err : {FALSE}, Jobs : SeqsUpTo(Jobs, MaxJobs)]

RECURSIVE FindCommitStatusStart(_, _)
\* The loop of the task over jobs.Jobs from the k-th: the id of the first
\* job named "Commit Status Start", 0 (jobID's zero value) without one.
FindCommitStatusStart(jobs, k) ==
    IF k > Len(jobs) THEN 0
    ELSE IF jobs[k].Name = CommitStatusStart THEN jobs[k].ID
    ELSE FindCommitStatusStart(jobs, k + 1)

InitRerun ==
    /\ HandlerIdle
    /\ input \in [jobs : JobsAnswers, rerunJobErr : BOOLEAN, rerunFailedErr : BOOLEAN]
    /\ output = NoOutput

\* rerunFailedJobs: wg.Add(1), then the go statement; the caller goes on to
\* wg.Wait().
CallrerunFailedJobs ==
    /\ output = NoOutput
    /\ output' = [fn |-> "rerunFailedJobs", caller |-> "wg.Wait", task |-> "ListWorkflowJobs",
                  wg |-> 1, jobID |-> 0, calls |-> << >>]
    /\ UNCHANGED << input, hvars >>

\* The task is at this statement.
TaskAt(statement) == output.fn = "rerunFailedJobs" /\ output.task = statement

\* TaskListWorkflowJobs that returns without wg.Done() when the listing
\* fails.
TaskListWorkflowJobs_NoDone ==
    /\ TaskAt("ListWorkflowJobs")
    /\ LET listed == Append(output.calls, [api |-> "Actions.ListWorkflowJobs",
                                           runID |-> RunID, err |-> input.jobs.err])
           jobID == FindCommitStatusStart(input.jobs.Jobs, 1)
       IN  output' =
             IF input.jobs.err
             THEN [output EXCEPT !.calls = listed, !.task = "exited"]
             ELSE [output EXCEPT !.calls = listed, !.jobID = jobID,
                                 !.task = IF jobID # 0 THEN "RerunJobByID"
                                          ELSE "RerunFailedJobsByID"]
    /\ UNCHANGED << input, hvars >>

\* The task lists the jobs of the run and looks for the Commit Status Start
\* job.
TaskListWorkflowJobs ==
    /\ TaskAt("ListWorkflowJobs")
    /\ LET listed == Append(output.calls, [api |-> "Actions.ListWorkflowJobs",
                                           runID |-> RunID, err |-> input.jobs.err])
           jobID == FindCommitStatusStart(input.jobs.Jobs, 1)
       IN  output' =
             IF input.jobs.err
             THEN [output EXCEPT !.calls = listed, !.task = "wg.Done"]
             ELSE [output EXCEPT !.calls = listed, !.jobID = jobID,
                                 !.task = IF jobID # 0 THEN "RerunJobByID"
                                          ELSE "RerunFailedJobsByID"]
    /\ UNCHANGED << input, hvars >>

\* The task re-runs the Commit Status Start job.
TaskRerunJobByID ==
    /\ TaskAt("RerunJobByID")
    /\ output' = [output EXCEPT
                    !.calls = Append(@, [api |-> "Actions.RerunJobByID",
                                         jobID |-> output.jobID,
                                         err |-> input.rerunJobErr]),
                    !.task = IF input.rerunJobErr THEN "wg.Done" ELSE "time.Sleep"]
    /\ UNCHANGED << input, hvars >>

\* time.Sleep(h.RunDelay) returns.
TaskSleep ==
    /\ TaskAt("time.Sleep")
    /\ output' = [output EXCEPT
                    !.calls = Append(@, [api |-> "time.Sleep", d |-> "RunDelay"]),
                    !.task = "RerunFailedJobsByID"]
    /\ UNCHANGED << input, hvars >>

\* The task asks for the failed jobs of the run to be re-run.
TaskRerunFailedJobsByID ==
    /\ TaskAt("RerunFailedJobsByID")
    /\ output' = [output EXCEPT
                    !.calls = Append(@, [api |-> "Actions.RerunFailedJobsByID",
                                         runID |-> RunID,
                                         err |-> input.rerunFailedErr]),
                    !.task = "wg.Done"]
    /\ UNCHANGED << input, hvars >>

\* The deferred wg.Done() of the task.
TaskDone ==
    /\ TaskAt("wg.Done")
    /\ output' = [output EXCEPT !.wg = @ - 1, !.task = "exited"]
    /\ UNCHANGED << input, hvars >>

\* wg.Wait() returns: the counter is zero.
WaitReturns ==
    /\ output.fn = "rerunFailedJobs"
    /\ output.caller = "wg.Wait"
    /\ output.wg = 0
    /\ output' = [output EXCEPT !.caller = "returned"]
    /\ UNCHANGED << input, hvars >>

TaskStep ==
    \/ TaskListWorkflowJobs
    \/ TaskRerunJobByID
    \/ TaskSleep
    \/ TaskRerunFailedJobsByID
    \/ TaskDone

NextRerun ==
    \/ CallrerunFailedJobs
    \/ TaskStep
    \/ WaitReturns

SpecRerun == InitRerun /\ [][NextRerun]_vars

\* The scheduler runs the task, each request returns (its context has a
\* deadline), the sleep ends, and a waiter is woken when the counter is
\* zero.
SpecRerunFair == SpecRerun /\ WF_vars(TaskStep) /\ WF_vars(WaitReturns)

\* The requests of the task for this API, by their place in its log.
TaskCalls(api) ==
    IF output.fn = "rerunFailedJobs"
    THEN {k \in DOMAIN output.calls : output.calls[k].api = api}
    ELSE {}

\* The listing has a Commit Status Start job.
HasCommitStatusStart ==
    \E k \in DOMAIN input.jobs.Jobs : input.jobs.Jobs[k].Name = CommitStatusStart

\* The re-run of failed jobs is asked for once at most, after a listing
\* that succeeded and, with a Commit Status Start job in it, after the
\* re-run of the first such job succeeded and the sleep of RunDelay that
\* follows it ended.
RerunFailedJobsInOrder ==
    /\ Cardinality(TaskCalls("Actions.RerunFailedJobsByID")) <= 1
    /\ \A k \in TaskCalls("Actions.RerunFailedJobsByID") :
          /\ output.calls[1].api = "Actions.ListWorkflowJobs"
          /\ ~output.calls[1].err
          /\ ~input.jobs.err
          /\ output.calls[k].runID = RunID
          /\ IF HasCommitStatusStart
             THEN /\ k = 4
                  /\ output.calls[2].api = "Actions.RerunJobByID"
                  /\ output.calls[2].jobID = FindCommitStatusStart(input.jobs.Jobs, 1)
                  /\ \E j \in DOMAIN input.jobs.Jobs :
                        /\ input.jobs.Jobs[j].Name = CommitStatusStart
                        /\ input.jobs.Jobs[j].ID = output.calls[2].jobID
                  /\ ~output.calls[2].err
                  /\ output.calls[3].api = "time.Sleep"
                  /\ output.calls[3].d = "RunDelay"
             ELSE k = 2

\* The counter of the wait group is 1 until the task exits and 0 from then
\* on, and wg.Wait() returns only after the task exited.
WaitGroupReleasedAtExit ==
    output.fn = "rerunFailedJobs" =>
        /\ output.wg = IF output.task = "exited" THEN 0 ELSE 1
        /\ output.caller = "returned" => output.task = "exited"

\* wg.Wait() has returned, the task has exited and the counter is zero.
WaitReturned ==
    /\ output.fn = "rerunFailedJobs"
    /\ output.caller = "returned"
    /\ output.task = "exited"
    /\ output.wg = 0

\* C40: whichever way the task of rerunFailedJobs ends (the listing of jobs
\* fails, no Commit Status Start job, its re-run fails, the re-run of
\* failed jobs succeeds or fails), it releases the wait group and wg.Wait()
\* returns; the re-run of failed jobs is asked for only after the listing
\* succeeded and, with a Commit Status Start job, only after its re-run
\* succeeded and RunDelay elapsed.
C40_WaitGroupReleasedAndRerunInOrder ==
    /\ [](RerunFailedJobsInOrder /\ WaitGroupReleasedAtExit)
    /\ (output.fn = "rerunFailedJobs") ~> WaitReturned

\* wg.Wait() returned after the Commit Status Start job was re-run, the
\* delay elapsed and the failed jobs were asked to be re-run.
C40_Witness ==
    /\ output.fn = "rerunFailedJobs"
    /\ output.caller = "returned"
    /\ HasCommitStatusStart
    /\ Len(input.jobs.Jobs) = 2
    /\ input.jobs.Jobs[1].Name # CommitStatusStart
    /\ TaskCalls("Actions.RerunFailedJobsByID") = {4}

\* wg.Wait() returned after the listing of jobs failed.
C40_WitnessListingFailed ==
    /\ output.fn = "rerunFailedJobs"
    /\ output.caller = "returned"
    /\ input.jobs.err
    /\ Len(output.calls) = 1

\* wg.Wait() returned after the re-run of the Commit Status Start job
\* failed.
C40_WitnessRerunJobFailed ==
    /\ output.fn = "rerunFailedJobs"
    /\ output.caller = "returned"
    /\ Len(output.calls) = 2
    /\ output.calls[2].api = "Actions.RerunJobByID"
    /\ output.calls[2].err

====
